---- MODULE Spec2Model ----
(***************************************************************************)
(* Model of the Turing machine simulator: the sparse tape (Tape.cpp), the  *)
(* configurations and their fingerprints (Configuration.cpp,               *)
(* MultiConfiguration.cpp), the machines (TuringMachine.cpp,               *)
(* MultiTuringMachine.cpp), the two engines (Simulator.cpp) and the word   *)
(* loop of the command line (main.cpp).                                    *)
(*                                                                         *)
(* A char is a one-character string, a std::string input word a sequence   *)
(* of chars, a state name a string, a fingerprint a string.                *)
(***************************************************************************)
EXTENDS Integers, Sequences, FiniteSets, TLC

VARIABLES
  machine,   \* the machine the engine points to (machine_), read-only
  kind,      \* "mono": Simulator on a TuringMachine; "multi": MultiSimulator
  sim,       \* the engine's fields: current_config, trace, trace_enabled,
             \* max_steps, last_error, visited_configurations
  pc,        \* "ready" (constructed), "running" (at the head of the main
             \* loop of simulate), "returned" (simulate has returned)
  result,    \* the SimulationResult of the last simulate call
  exit,      \* the return statement of simulate that produced result
  call,      \* the arguments of the last simulate call
  cli,       \* the command line: options, lines read, tokens printed
  probe      \* an object used outside a run: two configurations and their
             \* fingerprints, a machine under construction, a definition file

vars == <<machine, kind, sim, pc, result, exit, call, cli, probe>>

(***************************************************************************)
(* Bounds of the model.                                                    *)
(***************************************************************************)
\* longest input word
MaxWordLen == 2
\* largest step budget passed to simulate (0 = unbounded)
MaxBudget == 2
\* a run that has executed MaxRun steps is not continued
MaxRun == 7
\* lines the command line reads
MaxLines == 2
\* rightmost tape position of the configurations whose fingerprints are taken
MaxKeyPos == 1

(***************************************************************************)
(* Characters.                                                             *)
(***************************************************************************)
\* the default blank of Tape, Configuration, TuringMachine and of the
\* configuration the mono Simulator is constructed with
DefaultBlank == "."
\* the other blank a definition file declares in the model
OtherBlank == "_"
\* a character outside every input alphabet of the model
BadSymbol == "2"

Range(f) == {f[i] : i \in DOMAIN f}

RECURSIVE NatToString(_)
NatToString(n) ==
  LET d == n % 10
      ch == CASE d = 0 -> "0" [] d = 1 -> "1" [] d = 2 -> "2" [] d = 3 -> "3"
              [] d = 4 -> "4" [] d = 5 -> "5" [] d = 6 -> "6" [] d = 7 -> "7"
              [] d = 8 -> "8" [] OTHER -> "9"
  IN IF n < 10 THEN ch ELSE NatToString(n \div 10) \o ch

\* operator<<(ostream&, int): decimal, with a minus sign
IntToString(i) == IF i < 0 THEN "-" \o NatToString(-i) ELSE NatToString(i)

(***************************************************************************)
(* Tape: cells_ is a map position -> char (here a function whose domain is *)
(* the set of stored positions), head_position_, blank_symbol_.            *)
(***************************************************************************)
NoCells == [p \in {} |-> DefaultBlank]

Tape(blank_symbol) ==
  [cells |-> NoCells, head |-> 0, blank |-> blank_symbol]

Tape_read(t) ==
  IF t.head \in DOMAIN t.cells THEN t.cells[t.head] ELSE t.blank

\* a write that stores the blank like any other symbol
Tape_write_stores_blank(t, symbol) ==
  [t EXCEPT !.cells = [p \in (DOMAIN t.cells) \cup {t.head} |->
                         IF p = t.head THEN symbol ELSE t.cells[p]]]

Tape_write(t, symbol) ==
  IF symbol = t.blank
  THEN [t EXCEPT !.cells = [p \in (DOMAIN t.cells) \ {t.head} |-> t.cells[p]]]
  ELSE [t EXCEPT !.cells = [p \in (DOMAIN t.cells) \cup {t.head} |->
                              IF p = t.head THEN symbol ELSE t.cells[p]]]

Tape_move_left(t) == [t EXCEPT !.head = t.head - 1]

\* a move that allocates the cell it arrives at
Tape_move_right_allocating(t) ==
  [t EXCEPT !.head = t.head + 1,
            !.cells = [p \in (DOMAIN t.cells) \cup {t.head + 1} |->
                         IF p \in DOMAIN t.cells THEN t.cells[p] ELSE t.blank]]

Tape_move_right(t) == [t EXCEPT !.head = t.head + 1]

Tape_set_head_position(t, position) == [t EXCEPT !.head = position]

\* a reset that writes the input over the cells that are there
Tape_reset_keeps_cells(t, input_string) ==
  [t EXCEPT
     !.cells = [i \in {j \in 0 .. Len(input_string) - 1 :
                         input_string[j + 1] # t.blank}
                       \cup ((DOMAIN t.cells) \ (0 .. Len(input_string) - 1)) |->
                  IF i \in 0 .. Len(input_string) - 1
                  THEN input_string[i + 1] ELSE t.cells[i]],
     !.head = 0]

Tape_reset(t, input_string) ==
  [t EXCEPT
     !.cells = [i \in {j \in 0 .. Len(input_string) - 1 :
                         input_string[j + 1] # t.blank} |-> input_string[i + 1]],
     !.head = 0]

\* Tape(input_string, blank_symbol)
TapeOf(input_string, blank_symbol) == Tape_reset(Tape(blank_symbol), input_string)

Min(S) == CHOOSE x \in S : \A y \in S : x <= y
Max(S) == CHOOSE x \in S : \A y \in S : x >= y

RECURSIVE ContentFrom(_, _, _)
ContentFrom(t, pos, max_pos) ==
  IF pos > max_pos THEN ""
  ELSE (IF pos \in DOMAIN t.cells THEN t.cells[pos] ELSE t.blank)
         \o ContentFrom(t, pos + 1, max_pos)

\* a get_content whose string starts at the head when the head is left of
\* every stored cell
Tape_get_content_from_head(t) ==
  IF DOMAIN t.cells = {} THEN ""
  ELSE ContentFrom(t, Min(DOMAIN t.cells \cup {t.head}), Max(DOMAIN t.cells))

Tape_get_content(t) ==
  IF DOMAIN t.cells = {} THEN ""
  ELSE ContentFrom(t, Min(DOMAIN t.cells), Max(DOMAIN t.cells))

(***************************************************************************)
(* MultiTape: a vector of tapes sharing one blank.                         *)
(***************************************************************************)
MultiTape(num_tapes, input_word, blank_symbol) ==
  [i \in 1 .. num_tapes |->
     IF i = 1 THEN TapeOf(input_word, blank_symbol) ELSE Tape(blank_symbol)]

MultiTape_move(t, movement) ==
  CASE movement = "L" -> Tape_move_left(t)
    [] movement = "R" -> Tape_move_right(t)
    [] OTHER -> t

(***************************************************************************)
(* Configuration and MultiConfiguration.                                   *)
(***************************************************************************)
Configuration(initial_state, input_string, blank_symbol) ==
  [current_state |-> initial_state,
   tape |-> TapeOf(input_string, blank_symbol),
   step_count |-> 0]

Configuration_reset(c, initial_state, input_string) ==
  [current_state |-> initial_state,
   tape |-> Tape_reset(c.tape, input_string),
   step_count |-> 0]

Configuration_to_compact_string(c) ==
  c.current_state \o "|" \o IntToString(c.tape.head) \o "|"
    \o Tape_get_content(c.tape)

MultiConfiguration(initial_state, num_tapes, input_string, blank_symbol) ==
  [current_state |-> initial_state,
   tapes |-> MultiTape(num_tapes, input_string, blank_symbol),
   step_count |-> 0]

RECURSIVE HeadsFrom(_, _)
HeadsFrom(tapes, i) ==
  IF i > Len(tapes) THEN ""
  ELSE (IF i > 1 THEN "," ELSE "") \o IntToString(tapes[i].head)
         \o HeadsFrom(tapes, i + 1)

RECURSIVE ContentsFrom(_, _)
ContentsFrom(tapes, i) ==
  IF i > Len(tapes) THEN ""
  ELSE Tape_get_content(tapes[i]) \o (IF i < Len(tapes) THEN "|" ELSE "")
         \o ContentsFrom(tapes, i + 1)

MultiConfiguration_to_compact_string(c) ==
  c.current_state \o "|" \o HeadsFrom(c.tapes, 1) \o "|"
    \o ContentsFrom(c.tapes, 1)

(***************************************************************************)
(* Transition, MultiTransition (records) and the two machine classes.      *)
(* transitions_ is a map keyed by (state, read symbol) or (state, read     *)
(* symbols): a function whose domain is the set of keys.                   *)
(***************************************************************************)
Transition(from_state, read_symbol, to_state, write_symbol, movement) ==
  [from_state |-> from_state, read_symbol |-> read_symbol,
   to_state |-> to_state, write_symbol |-> write_symbol,
   movement |-> movement]

MultiTransition(from_state, read_symbols, to_state, write_symbols, movements) ==
  [from_state |-> from_state, read_symbols |-> read_symbols,
   to_state |-> to_state, write_symbols |-> write_symbols,
   movements |-> movements]

MultiTransition_get_num_tapes(t) == Len(t.read_symbols)

\* the null pointer get_transition returns when the key is absent
nullptr == [null |-> TRUE]

TuringMachine_get_transition(M, state, symbol) ==
  IF <<state, symbol>> \in DOMAIN M.transitions
  THEN M.transitions[<<state, symbol>>]
  ELSE nullptr

TuringMachine_is_accept_state(M, state) == state \in M.accept_states

TuringMachine_is_input_symbol(M, symbol) == symbol \in M.input_alphabet

TuringMachine_is_valid_input_word(M, word) ==
  \A i \in 1 .. Len(word) : TuringMachine_is_input_symbol(M, word[i])

\* an is_valid that does not look for the blank in the input alphabet
TuringMachine_is_valid_blank_unchecked(M) ==
  /\ M.states # {}
  /\ M.initial_state # "" /\ M.initial_state \in M.states
  /\ \A a \in M.accept_states : a \in M.states
  /\ M.blank_symbol \in M.tape_alphabet
  /\ \A c \in M.input_alphabet : c \in M.tape_alphabet
  /\ \A k \in DOMAIN M.transitions :
       LET trans == M.transitions[k]
       IN /\ trans.from_state \in M.states /\ trans.to_state \in M.states
          /\ trans.read_symbol \in M.tape_alphabet
          /\ trans.write_symbol \in M.tape_alphabet

\* an is_valid that does not look at the initial state
TuringMachine_is_valid_initial_unchecked(M) ==
  /\ M.states # {}
  /\ \A a \in M.accept_states : a \in M.states
  /\ M.blank_symbol \in M.tape_alphabet
  /\ \A c \in M.input_alphabet : c \in M.tape_alphabet /\ c # M.blank_symbol
  /\ \A k \in DOMAIN M.transitions :
       LET trans == M.transitions[k]
       IN /\ trans.from_state \in M.states /\ trans.to_state \in M.states
          /\ trans.read_symbol \in M.tape_alphabet
          /\ trans.write_symbol \in M.tape_alphabet

TuringMachine_is_valid(M) ==
  /\ M.states # {}
  /\ M.initial_state # "" /\ M.initial_state \in M.states
  /\ \A a \in M.accept_states : a \in M.states
  /\ M.blank_symbol \in M.tape_alphabet
  /\ \A c \in M.input_alphabet : c \in M.tape_alphabet /\ c # M.blank_symbol
  /\ \A k \in DOMAIN M.transitions :
       LET trans == M.transitions[k]
       IN /\ trans.from_state \in M.states /\ trans.to_state \in M.states
          /\ trans.read_symbol \in M.tape_alphabet
          /\ trans.write_symbol \in M.tape_alphabet

MultiTuringMachine_get_transition(M, state, symbols) ==
  IF Len(symbols) # M.num_tapes THEN nullptr
  ELSE IF <<state, symbols>> \in DOMAIN M.transitions
       THEN M.transitions[<<state, symbols>>]
       ELSE nullptr

MultiTuringMachine_is_accept_state(M, state) == state \in M.accept_states

MultiTuringMachine_is_input_symbol(M, symbol) == symbol \in M.input_alphabet

MultiTuringMachine_is_valid_input_word(M, word) ==
  \A i \in 1 .. Len(word) : MultiTuringMachine_is_input_symbol(M, word[i])

MultiTuringMachine_is_valid(M) ==
  /\ M.states # {}
  /\ M.initial_state # "" /\ M.initial_state \in M.states
  /\ M.num_tapes # 0
  /\ \A a \in M.accept_states : a \in M.states
  /\ M.blank_symbol \in M.tape_alphabet
  /\ \A c \in M.input_alphabet : c \in M.tape_alphabet /\ c # M.blank_symbol
  /\ \A k \in DOMAIN M.transitions :
       LET trans == M.transitions[k]
       IN /\ MultiTransition_get_num_tapes(trans) = M.num_tapes
          /\ trans.from_state \in M.states /\ trans.to_state \in M.states
          /\ \A i \in 1 .. M.num_tapes :
               /\ trans.read_symbols[i] \in M.tape_alphabet
               /\ trans.write_symbols[i] \in M.tape_alphabet

(***************************************************************************)
(* Simulator: the mono engine.  s is the record of the engine's fields.    *)
(***************************************************************************)
\* max_steps_ of a newly constructed engine
DefaultMaxSteps == 1000

Simulator(M) ==
  [current_config |-> Configuration("", <<>>, DefaultBlank),
   trace |-> <<>>,
   trace_enabled |-> FALSE,
   max_steps |-> DefaultMaxSteps,
   last_error |-> IF M = nullptr
                  THEN "La maquina de Turing no puede ser nullptr" ELSE "",
   visited_configurations |-> {}]

\* a reset that leaves the fingerprints of the previous run in the set
Simulator_reset_keeps_visited(M, s, input_word) ==
  [s EXCEPT
     !.current_config =
        LET c == Configuration_reset(s.current_config, M.initial_state, input_word)
        IN [c EXCEPT !.tape = Tape_set_head_position(c.tape, 0)],
     !.trace = <<>>,
     !.last_error = ""]

\* a reset that leaves the message of the previous call in last_error
Simulator_reset_keeps_last_error(M, s, input_word) ==
  [s EXCEPT
     !.current_config =
        LET c == Configuration_reset(s.current_config, M.initial_state, input_word)
        IN [c EXCEPT !.tape = Tape_set_head_position(c.tape, 0)],
     !.trace = <<>>,
     !.visited_configurations = {}]

Simulator_reset(M, s, input_word) ==
  [s EXCEPT
     !.current_config =
        LET c == Configuration_reset(s.current_config, M.initial_state, input_word)
        IN [c EXCEPT !.tape = Tape_set_head_position(c.tape, 0)],
     !.trace = <<>>,
     !.visited_configurations = {},
     !.last_error = ""]

Simulator_is_accepting_state(M, s) ==
  TuringMachine_is_accept_state(M, s.current_config.current_state)

\* a test that looks for a transition of the current state on any symbol
Simulator_has_applicable_transition_any_symbol(M, s) ==
  \E key \in DOMAIN M.transitions : key[1] = s.current_config.current_state

Simulator_has_applicable_transition(M, s) ==
  TuringMachine_get_transition(M, s.current_config.current_state,
                               Tape_read(s.current_config.tape)) # nullptr

\* a step that writes and moves but leaves the current state as it was
Simulator_step_keeps_state(M, s) ==
  LET current_state == s.current_config.current_state
      current_symbol == Tape_read(s.current_config.tape)
      transition == TuringMachine_get_transition(M, current_state, current_symbol)
  IN IF transition = nullptr THEN [ok |-> FALSE, sim |-> s]
     ELSE LET written == Tape_write(s.current_config.tape, transition.write_symbol)
              moved == CASE transition.movement = "L" -> Tape_move_left(written)
                         [] transition.movement = "R" -> Tape_move_right(written)
                         [] OTHER -> written
          IN [ok |-> TRUE,
              sim |-> [s EXCEPT !.current_config =
                         [current_state |-> current_state,
                          tape |-> moved,
                          step_count |-> s.current_config.step_count + 1]]]

\* step(): [ok |-> the value returned, sim |-> the engine afterwards]
Simulator_step(M, s) ==
  LET current_state == s.current_config.current_state
      current_symbol == Tape_read(s.current_config.tape)
      transition == TuringMachine_get_transition(M, current_state, current_symbol)
  IN IF transition = nullptr THEN [ok |-> FALSE, sim |-> s]
     ELSE LET written == Tape_write(s.current_config.tape, transition.write_symbol)
              moved == CASE transition.movement = "L" -> Tape_move_left(written)
                         [] transition.movement = "R" -> Tape_move_right(written)
                         [] OTHER -> written
          IN [ok |-> TRUE,
              sim |-> [s EXCEPT !.current_config =
                         [current_state |-> transition.to_state,
                          tape |-> moved,
                          step_count |-> s.current_config.step_count + 1]]]

\* an add_to_trace that puts the configuration at the front of the trace
Simulator_add_to_trace_at_front(s) ==
  IF s.trace_enabled
  THEN [s EXCEPT !.trace = <<s.current_config>> \o s.trace]
  ELSE s

\* an add_to_trace whose entries share the storage of the live configuration
Simulator_add_to_trace_sharing(s) ==
  IF s.trace_enabled
  THEN [s EXCEPT !.trace = [i \in 1 .. Len(s.trace) + 1 |-> s.current_config]]
  ELSE s

Simulator_add_to_trace(s) ==
  IF s.trace_enabled
  THEN [s EXCEPT !.trace = Append(s.trace, s.current_config)]
  ELSE s

Simulator_get_configuration_key(s) ==
  Configuration_to_compact_string(s.current_config)

Simulator_is_configuration_visited(s) ==
  Simulator_get_configuration_key(s) \in s.visited_configurations

\* a mark_configuration_as_visited that remembers the last fingerprint only
Simulator_mark_configuration_as_visited_last_only(s) ==
  [s EXCEPT !.visited_configurations = {Simulator_get_configuration_key(s)}]

Simulator_mark_configuration_as_visited(s) ==
  [s EXCEPT !.visited_configurations =
     s.visited_configurations \cup {Simulator_get_configuration_key(s)}]

Simulator_is_infinite_loop_detected(s) == Simulator_is_configuration_visited(s)

\* a simulate call in progress or returned
Frame(s, p, r, e) == [sim |-> s, pc |-> p, result |-> r, exit |-> e]

\* an entry that configures and resets the engine before it tests the word
Simulator_simulate_enter_reset_first(M, s, input_word, enable_trace, max_steps) ==
  IF M = nullptr
  THEN Frame([s EXCEPT !.last_error = "No hay maquina de Turing asignada"],
             "returned", "ERROR", "no_machine")
  ELSE IF ~TuringMachine_is_valid(M)
  THEN Frame([s EXCEPT !.last_error = "La maquina de Turing no es valida"],
             "returned", "ERROR", "invalid_machine")
  ELSE LET configured == [s EXCEPT !.trace_enabled = enable_trace,
                                   !.max_steps = max_steps]
           fresh == Simulator_reset(M, configured, input_word)
       IN IF ~TuringMachine_is_valid_input_word(M, input_word)
          THEN Frame([fresh EXCEPT !.last_error =
                        "La palabra de entrada contiene simbolos no validos"],
                     "returned", "ERROR", "invalid_word")
          ELSE Frame(Simulator_mark_configuration_as_visited(
                       Simulator_add_to_trace(fresh)),
                     "running", "NONE", "none")

\* an entry that stores enable_trace and max_steps before it tests the
\* machine and the word
Simulator_simulate_enter_configure_first(M, s, input_word, enable_trace, max_steps) ==
  IF M = nullptr
  THEN Frame([s EXCEPT !.last_error = "No hay maquina de Turing asignada"],
             "returned", "ERROR", "no_machine")
  ELSE LET configured == [s EXCEPT !.trace_enabled = enable_trace,
                                   !.max_steps = max_steps]
       IN IF ~TuringMachine_is_valid(M)
          THEN Frame([configured EXCEPT !.last_error =
                        "La maquina de Turing no es valida"],
                     "returned", "ERROR", "invalid_machine")
          ELSE IF ~TuringMachine_is_valid_input_word(M, input_word)
          THEN Frame([configured EXCEPT !.last_error =
                        "La palabra de entrada contiene simbolos no validos"],
                     "returned", "ERROR", "invalid_word")
          ELSE Frame(Simulator_mark_configuration_as_visited(
                       Simulator_add_to_trace(
                         Simulator_reset(M, configured, input_word))),
                     "running", "NONE", "none")

\* simulate, from its entry to the head of the main loop
Simulator_simulate_enter(M, s, input_word, enable_trace, max_steps) ==
  IF M = nullptr
  THEN Frame([s EXCEPT !.last_error = "No hay maquina de Turing asignada"],
             "returned", "ERROR", "no_machine")
  ELSE IF ~TuringMachine_is_valid(M)
  THEN Frame([s EXCEPT !.last_error = "La maquina de Turing no es valida"],
             "returned", "ERROR", "invalid_machine")
  ELSE IF ~TuringMachine_is_valid_input_word(M, input_word)
  THEN Frame([s EXCEPT !.last_error =
                "La palabra de entrada contiene simbolos no validos"],
             "returned", "ERROR", "invalid_word")
  ELSE LET configured == [s EXCEPT !.trace_enabled = enable_trace,
                                   !.max_steps = max_steps]
           fresh == Simulator_reset(M, configured, input_word)
       IN Frame(Simulator_mark_configuration_as_visited(Simulator_add_to_trace(fresh)),
                "running", "NONE", "none")

\* a budget test against the default of the constructor, not the argument
Simulator_budget_reached_default(s) ==
  s.max_steps > 0 /\ s.current_config.step_count >= DefaultMaxSteps

\* a budget test with max_steps >= 0 for max_steps > 0
Simulator_budget_reached_from_zero(s) ==
  s.max_steps >= 0 /\ s.current_config.step_count >= s.max_steps

\* a budget test that takes max_steps = 0 for a budget of no steps
Simulator_budget_reached_unguarded(s) ==
  s.current_config.step_count >= s.max_steps

\* a budget test that allows one step more than max_steps
Simulator_budget_reached_late(s) ==
  s.max_steps > 0 /\ s.current_config.step_count > s.max_steps

\* the budget test at the head of the main loop
Simulator_budget_reached(s) ==
  s.max_steps > 0 /\ s.current_config.step_count >= s.max_steps

\* an iteration that tests for a missing transition before acceptance
Simulator_simulate_loop_reject_first(M, s) ==
  IF Simulator_budget_reached(s)
  THEN Frame(s, "returned", "INFINITE", "budget")
  ELSE IF ~Simulator_has_applicable_transition(M, s)
  THEN Frame(s, "returned", "REJECTED", "no_transition")
  ELSE IF Simulator_is_accepting_state(M, s)
  THEN Frame(s, "returned", "ACCEPTED", "accept")
  ELSE LET st == Simulator_step(M, s)
       IN IF ~st.ok
          THEN Frame([st.sim EXCEPT !.last_error =
                        "Error al ejecutar paso de simulacion"],
                     "returned", "ERROR", "step_failed")
          ELSE IF Simulator_is_configuration_visited(st.sim)
          THEN Frame(st.sim, "returned", "INFINITE", "revisit")
          ELSE Frame(Simulator_add_to_trace(
                       Simulator_mark_configuration_as_visited(st.sim)),
                     "running", "NONE", "none")

\* one iteration of the main loop of simulate
Simulator_simulate_loop(M, s) ==
  IF Simulator_budget_reached(s)
  THEN Frame(s, "returned", "INFINITE", "budget")
  ELSE IF Simulator_is_accepting_state(M, s)
  THEN Frame(s, "returned", "ACCEPTED", "accept")
  ELSE IF ~Simulator_has_applicable_transition(M, s)
  THEN Frame(s, "returned", "REJECTED", "no_transition")
  ELSE LET st == Simulator_step(M, s)
       IN IF ~st.ok
          THEN Frame([st.sim EXCEPT !.last_error =
                        "Error al ejecutar paso de simulacion"],
                     "returned", "ERROR", "step_failed")
          ELSE IF Simulator_is_configuration_visited(st.sim)
          THEN Frame(st.sim, "returned", "INFINITE", "revisit")
          ELSE Frame(Simulator_add_to_trace(
                       Simulator_mark_configuration_as_visited(st.sim)),
                     "running", "NONE", "none")

(***************************************************************************)
(* MultiSimulator: the multi-tape engine.                                  *)
(***************************************************************************)
MultiSimulator(M) ==
  [current_config |->
     IF M = nullptr THEN MultiConfiguration("", 1, <<>>, DefaultBlank)
     ELSE MultiConfiguration(M.initial_state, M.num_tapes, <<>>, M.blank_symbol),
   trace |-> <<>>,
   trace_enabled |-> FALSE,
   max_steps |-> DefaultMaxSteps,
   last_error |-> IF M = nullptr
                  THEN "La maquina de Turing multicinta no puede ser nullptr"
                  ELSE "",
   visited_configurations |-> {}]

\* a reset that rebuilds the first tape and keeps the others as they are
MultiSimulator_reset_first_tape_only(M, s, input_word) ==
  [s EXCEPT
     !.trace = <<>>,
     !.visited_configurations = {},
     !.last_error = "",
     !.current_config =
        [current_state |-> M.initial_state,
         tapes |-> [i \in 1 .. M.num_tapes |->
                      IF i = 1 \/ i > Len(s.current_config.tapes)
                      THEN MultiTape(M.num_tapes, input_word, M.blank_symbol)[i]
                      ELSE s.current_config.tapes[i]],
         step_count |-> 0]]

MultiSimulator_reset(M, s, input_word) ==
  [s EXCEPT
     !.trace = <<>>,
     !.visited_configurations = {},
     !.last_error = "",
     !.current_config = MultiConfiguration(M.initial_state, M.num_tapes,
                                           input_word, M.blank_symbol)]

MultiSimulator_is_accepting_state(M, s) ==
  MultiTuringMachine_is_accept_state(M, s.current_config.current_state)

\* the symbols under the heads, tape by tape
ReadAll(tapes) == [i \in 1 .. Len(tapes) |-> Tape_read(tapes[i])]

MultiSimulator_has_applicable_transition(M, s) ==
  MultiTuringMachine_get_transition(M, s.current_config.current_state,
                                    ReadAll(s.current_config.tapes)) # nullptr

\* a step that writes on the first tape only
MultiSimulator_step_first_tape_only(M, s) ==
  LET tapes == s.current_config.tapes
      num_tapes == Len(tapes)
      current_symbols == ReadAll(tapes)
      current_state == s.current_config.current_state
      transition == MultiTuringMachine_get_transition(M, current_state,
                                                      current_symbols)
  IN IF transition = nullptr THEN [ok |-> FALSE, sim |-> s]
     ELSE LET written == [i \in 1 .. num_tapes |->
                            IF i = 1
                            THEN Tape_write(tapes[i], transition.write_symbols[i])
                            ELSE tapes[i]]
              moved == [i \in 1 .. num_tapes |->
                          MultiTape_move(written[i], transition.movements[i])]
          IN [ok |-> TRUE,
              sim |-> [s EXCEPT !.current_config =
                         [current_state |-> transition.to_state,
                          tapes |-> moved,
                          step_count |-> s.current_config.step_count + 1]]]

\* a step that moves every head and then writes
MultiSimulator_step_move_then_write(M, s) ==
  LET tapes == s.current_config.tapes
      num_tapes == Len(tapes)
      current_symbols == ReadAll(tapes)
      current_state == s.current_config.current_state
      transition == MultiTuringMachine_get_transition(M, current_state,
                                                      current_symbols)
  IN IF transition = nullptr THEN [ok |-> FALSE, sim |-> s]
     ELSE LET moved == [i \in 1 .. num_tapes |->
                          MultiTape_move(tapes[i], transition.movements[i])]
              written == [i \in 1 .. num_tapes |->
                            Tape_write(moved[i], transition.write_symbols[i])]
          IN [ok |-> TRUE,
              sim |-> [s EXCEPT !.current_config =
                         [current_state |-> transition.to_state,
                          tapes |-> written,
                          step_count |-> s.current_config.step_count + 1]]]

MultiSimulator_step(M, s) ==
  LET tapes == s.current_config.tapes
      num_tapes == Len(tapes)
      current_symbols == ReadAll(tapes)
      current_state == s.current_config.current_state
      transition == MultiTuringMachine_get_transition(M, current_state,
                                                      current_symbols)
  IN IF transition = nullptr THEN [ok |-> FALSE, sim |-> s]
     ELSE LET written == [i \in 1 .. num_tapes |->
                            Tape_write(tapes[i], transition.write_symbols[i])]
              moved == [i \in 1 .. num_tapes |->
                          MultiTape_move(written[i], transition.movements[i])]
          IN [ok |-> TRUE,
              sim |-> [s EXCEPT !.current_config =
                         [current_state |-> transition.to_state,
                          tapes |-> moved,
                          step_count |-> s.current_config.step_count + 1]]]

MultiSimulator_add_to_trace(s) ==
  IF s.trace_enabled
  THEN [s EXCEPT !.trace = Append(s.trace, s.current_config)]
  ELSE s

MultiSimulator_get_configuration_key(s) ==
  MultiConfiguration_to_compact_string(s.current_config)

MultiSimulator_is_configuration_visited(s) ==
  MultiSimulator_get_configuration_key(s) \in s.visited_configurations

MultiSimulator_mark_configuration_as_visited(s) ==
  [s EXCEPT !.visited_configurations =
     s.visited_configurations \cup {MultiSimulator_get_configuration_key(s)}]

MultiSimulator_is_infinite_loop_detected(s) ==
  MultiSimulator_is_configuration_visited(s)

MultiSimulator_simulate_enter(M, s, input_word, enable_trace, max_steps) ==
  IF M = nullptr
  THEN Frame([s EXCEPT !.last_error =
                "No hay maquina de Turing multicinta asignada"],
             "returned", "ERROR", "no_machine")
  ELSE IF ~MultiTuringMachine_is_valid(M)
  THEN Frame([s EXCEPT !.last_error =
                "La maquina de Turing multicinta no es valida"],
             "returned", "ERROR", "invalid_machine")
  ELSE IF ~MultiTuringMachine_is_valid_input_word(M, input_word)
  THEN Frame([s EXCEPT !.last_error =
                "La palabra de entrada contiene simbolos no validos"],
             "returned", "ERROR", "invalid_word")
  ELSE LET configured == [s EXCEPT !.trace_enabled = enable_trace,
                                   !.max_steps = max_steps]
           fresh == MultiSimulator_reset(M, configured, input_word)
       IN Frame(MultiSimulator_mark_configuration_as_visited(
                  MultiSimulator_add_to_trace(fresh)),
                "running", "NONE", "none")

MultiSimulator_budget_reached(s) ==
  s.max_steps > 0 /\ s.current_config.step_count >= s.max_steps

MultiSimulator_simulate_loop(M, s) ==
  IF MultiSimulator_budget_reached(s)
  THEN Frame(s, "returned", "INFINITE", "budget")
  ELSE IF MultiSimulator_is_accepting_state(M, s)
  THEN Frame(s, "returned", "ACCEPTED", "accept")
  ELSE IF ~MultiSimulator_has_applicable_transition(M, s)
  THEN Frame(s, "returned", "REJECTED", "no_transition")
  ELSE LET st == MultiSimulator_step(M, s)
       IN IF ~st.ok
          THEN Frame([st.sim EXCEPT !.last_error =
                        "Error al ejecutar paso de simulacion multicinta"],
                     "returned", "ERROR", "step_failed")
          ELSE IF MultiSimulator_is_configuration_visited(st.sim)
          THEN Frame(st.sim, "returned", "INFINITE", "revisit")
          ELSE Frame(MultiSimulator_add_to_trace(
                       MultiSimulator_mark_configuration_as_visited(st.sim)),
                     "running", "NONE", "none")

(***************************************************************************)
(* The engine of either class, by kind.                                    *)
(***************************************************************************)
Engine(k, M) == IF k = "mono" THEN Simulator(M) ELSE MultiSimulator(M)

simulate_enter(k, M, s, input_word, enable_trace, max_steps) ==
  IF k = "mono"
  THEN Simulator_simulate_enter(M, s, input_word, enable_trace, max_steps)
  ELSE MultiSimulator_simulate_enter(M, s, input_word, enable_trace, max_steps)

simulate_loop(k, M, s) ==
  IF k = "mono" THEN Simulator_simulate_loop(M, s)
  ELSE MultiSimulator_simulate_loop(M, s)

is_infinite_loop_detected(k, s) ==
  IF k = "mono" THEN Simulator_is_infinite_loop_detected(s)
  ELSE MultiSimulator_is_infinite_loop_detected(s)

is_accept_state(k, M, state) ==
  IF k = "mono" THEN TuringMachine_is_accept_state(M, state)
  ELSE MultiTuringMachine_is_accept_state(M, state)

\* the two tests of the machine at the entry of simulate: attached, valid
is_valid(k, M) ==
  /\ M # nullptr
  /\ IF k = "mono" THEN TuringMachine_is_valid(M)
     ELSE MultiTuringMachine_is_valid(M)

is_valid_input_word(k, M, word) ==
  IF k = "mono" THEN TuringMachine_is_valid_input_word(M, word)
  ELSE MultiTuringMachine_is_valid_input_word(M, word)

\* the tapes of a configuration of either class, as a sequence
TapesOf(k, c) == IF k = "mono" THEN <<c.tape>> ELSE c.tapes

\* simulate run to its return, or as far as MaxRun steps
RECURSIVE RunLoop(_, _, _)
RunLoop(k, M, f) ==
  IF f.pc # "running" \/ f.sim.current_config.step_count >= MaxRun THEN f
  ELSE RunLoop(k, M, simulate_loop(k, M, f.sim))

\* the whole call simulate(input_word, enable_trace, max_steps) on engine s
simulate(k, M, s, input_word, enable_trace, max_steps) ==
  RunLoop(k, M, simulate_enter(k, M, s, input_word, enable_trace, max_steps))

(***************************************************************************)
(* The machines of the model.  A machine loaded from a definition file     *)
(* keeps the default blank in its tape alphabet (the constructor and       *)
(* clear() insert it, set_blank_symbol does not retract it), and           *)
(* add_transition inserts the symbols of every transition.                 *)
(***************************************************************************)
Blanks == {DefaultBlank, OtherBlank}

TransitionMap(T) ==
  [key \in {<<t.from_state, t.read_symbol>> : t \in T} |->
     CHOOSE t \in T : <<t.from_state, t.read_symbol>> = key]

MultiTransitionMap(T) ==
  [key \in {<<t.from_state, t.read_symbols>> : t \in T} |->
     CHOOSE t \in T : <<t.from_state, t.read_symbols>> = key]

LoadedMachine(states, input_alphabet, tape_alphabet, initial_state, blank_symbol, accept_states, T) ==
  [states |-> states \cup {initial_state} \cup accept_states,
   input_alphabet |-> input_alphabet,
   tape_alphabet |-> tape_alphabet \cup input_alphabet
                       \cup {DefaultBlank, blank_symbol}
                       \cup {t.read_symbol : t \in T}
                       \cup {t.write_symbol : t \in T},
   initial_state |-> initial_state,
   accept_states |-> accept_states,
   blank_symbol |-> blank_symbol,
   transitions |-> TransitionMap(T)]

LoadedMultiMachine(num_tapes, states, input_alphabet, tape_alphabet, initial_state, blank_symbol, accept_states, T) ==
  [states |-> states \cup {initial_state} \cup accept_states
                \cup {t.from_state : t \in T} \cup {t.to_state : t \in T},
   input_alphabet |-> input_alphabet,
   tape_alphabet |-> tape_alphabet \cup input_alphabet
                       \cup {DefaultBlank, blank_symbol}
                       \cup UNION {Range(t.read_symbols) : t \in T}
                       \cup UNION {Range(t.write_symbols) : t \in T},
   initial_state |-> initial_state,
   accept_states |-> accept_states,
   blank_symbol |-> blank_symbol,
   num_tapes |-> num_tapes,
   transitions |-> MultiTransitionMap(T)]

\* the mono example of the README: words with an odd number of 0s
OddZeros(b) ==
  LoadedMachine({"q0", "q1", "q2"}, {"0", "1"}, {"0", "1", b}, "q0", b, {"q2"},
    {Transition("q0", "0", "q1", "0", "R"),
     Transition("q0", "1", "q0", "1", "R"),
     Transition("q1", "0", "q0", "0", "R"),
     Transition("q1", "1", "q1", "1", "R"),
     Transition("q1", b, "q2", b, "R")})

\* stays on an a for ever
Looper(b) ==
  LoadedMachine({"q0", "q1"}, {"a"}, {"a", b}, "q0", b, {"q1"},
    {Transition("q0", "a", "q0", "a", "S")})

\* runs to the right for ever
Runner(b) ==
  LoadedMachine({"q0", "q1"}, {"a"}, {"a", b}, "q0", b, {"q1"},
    {Transition("q0", "a", "q0", "a", "R"),
     Transition("q0", b, "q0", b, "R")})

\* moves an a one cell to the right and comes back, then accepts on a blank
Shifter(b) ==
  LoadedMachine({"q0", "q1", "qa"}, {"a"}, {"a", b}, "q0", b, {"qa"},
    {Transition("q0", "a", "q1", b, "R"),
     Transition("q1", b, "q0", "a", "L"),
     Transition("q0", b, "qa", b, "S")})

\* enters the accept state q1, which has a transition on a and none on blank
Acceptor(b) ==
  LoadedMachine({"q0", "q1"}, {"a"}, {"a", b}, "q0", b, {"q1"},
    {Transition("q0", "a", "q1", "a", "R"),
     Transition("q0", b, "q1", b, "S"),
     Transition("q1", "a", "q0", "a", "R")})

\* a machine built without set_initial_state: is_valid() is false
NoInitialState ==
  [LoadedMachine({"q0"}, {"a"}, {"a"}, "q0", DefaultBlank, {}, {})
     EXCEPT !.initial_state = ""]

\* the multi-tape example of the README: unary sum on two tapes
UnarySum(b) ==
  LoadedMultiMachine(2, {"q0", "q1", "q2", "q3", "q4"}, {"1", "0"},
    {"1", "0", b}, "q0", b, {"q4"},
    {MultiTransition("q0", <<"1", b>>, "q1", <<"1", "1">>, <<"R", "R">>),
     MultiTransition("q1", <<"1", b>>, "q1", <<"1", "1">>, <<"R", "R">>),
     MultiTransition("q1", <<"0", b>>, "q2", <<"0", b>>, <<"R", "S">>),
     MultiTransition("q2", <<"1", b>>, "q2", <<b, "1">>, <<"R", "R">>),
     MultiTransition("q2", <<b, b>>, "q3", <<b, b>>, <<"L", "S">>),
     MultiTransition("q3", <<"0", b>>, "q3", <<"0", b>>, <<"L", "S">>),
     MultiTransition("q3", <<"1", b>>, "q3", <<"1", b>>, <<"L", "S">>),
     MultiTransition("q3", <<b, b>>, "q4", <<b, b>>, <<"S", "S">>)})

\* the 1-tape multi machine with the components and transitions of mono M
AsOneTape(M) ==
  [states |-> M.states,
   input_alphabet |-> M.input_alphabet,
   tape_alphabet |-> M.tape_alphabet,
   initial_state |-> M.initial_state,
   accept_states |-> M.accept_states,
   blank_symbol |-> M.blank_symbol,
   num_tapes |-> 1,
   transitions |->
     MultiTransitionMap({MultiTransition(t.from_state, <<t.read_symbol>>,
                                         t.to_state, <<t.write_symbol>>,
                                         <<t.movement>>) :
                           t \in Range(M.transitions)})]

ValidMonoMachines ==
  {Shifter(b) : b \in Blanks} \cup {Acceptor(b) : b \in Blanks}
    \cup {OddZeros(DefaultBlank), Looper(DefaultBlank), Runner(DefaultBlank)}

MonoMachines == ValidMonoMachines \cup {NoInitialState, nullptr}

ValidMultiMachines ==
  {AsOneTape(M) : M \in ValidMonoMachines} \cup {UnarySum(DefaultBlank)}

MultiMachines == ValidMultiMachines \cup {AsOneTape(NoInitialState), nullptr}

\* the words of at most n characters over the alphabet A
RECURSIVE WordsOver(_, _)
WordsOver(A, n) ==
  IF n = 0 THEN {<<>>}
  ELSE LET shorter == WordsOver(A, n - 1)
       IN shorter \cup {Append(w, c) : w \in shorter, c \in A}

\* the input words tried on machine M: the words over its input alphabet, and
\* words with a character outside it, first or after one valid character
Words(M) ==
  IF M = nullptr THEN WordsOver({"a"}, 1)
  ELSE WordsOver(M.input_alphabet, MaxWordLen)
         \cup {<<BadSymbol>>} \cup {<<c, BadSymbol>> : c \in M.input_alphabet}

Budgets == 0 .. MaxBudget

(***************************************************************************)
(* The command line (main.cpp): options, the lines read so far, the result *)
(* tokens printed on stdout, the number of diagnostics on stderr.          *)
(***************************************************************************)
NoCli ==
  [on |-> FALSE, strict_mode |-> FALSE, trace |-> FALSE, max_steps |-> 0,
   lines |-> <<>>, out |-> <<>>, err |-> 0]

Simulator_result_to_string(r) ==
  CASE r = "ACCEPTED" -> "ACCEPT"
    [] r = "REJECTED" -> "REJECT"
    [] r = "INFINITE" -> "INFINITE"
    [] r = "ERROR" -> "ERROR"
    [] OTHER -> "UNKNOWN"

\* word_in_alphabet, word_in_alphabet_multi
word_in_alphabet(k, M, w) ==
  \A i \in 1 .. Len(w) :
     IF k = "mono" THEN TuringMachine_is_input_symbol(M, w[i])
     ELSE MultiTuringMachine_is_input_symbol(M, w[i])

\* a main that puts the token of a run before the tokens printed so far
MainPrintResult_at_front(c, r) ==
  [c EXCEPT !.out = <<Simulator_result_to_string(r)>> \o c.out,
            !.err = IF r = "ERROR" THEN c.err + 1 ELSE c.err]

\* main, after simulate has returned result r: the token on stdout and, for
\* ERROR, the diagnostic on stderr
MainPrintResult(c, r) ==
  [c EXCEPT !.out = Append(c.out, Simulator_result_to_string(r)),
            !.err = IF r = "ERROR" THEN c.err + 1 ELSE c.err]

\* a gate that prints ERROR for a word outside the alphabet in strict mode
MainRejectWord_error_in_strict(c) ==
  [c EXCEPT !.out = Append(c.out, IF c.strict_mode THEN "ERROR" ELSE "REJECT"),
            !.err = IF c.strict_mode THEN c.err + 1 ELSE c.err]

\* main, for a word outside the alphabet: REJECT on stdout in both modes,
\* a diagnostic on stderr in strict mode
MainRejectWord(c) ==
  [c EXCEPT !.out = Append(c.out, "REJECT"),
            !.err = IF c.strict_mode THEN c.err + 1 ELSE c.err]

(***************************************************************************)
(* The state machine.                                                      *)
(***************************************************************************)
\* no object outside the engine is under examination
NoProbe == [on |-> FALSE]

NoCall ==
  [input_word |-> <<>>, enable_trace |-> FALSE, max_steps |-> 0, again |-> FALSE]

\* the record of one more call of simulate on the engine; again: the engine
\* has been called before
NextCall(input_word, enable_trace, max_steps) ==
  [input_word |-> input_word, enable_trace |-> enable_trace,
   max_steps |-> max_steps, again |-> pc # "ready"]

\* an engine constructed on a machine, simulate not yet called
Init ==
  /\ \/ kind = "mono" /\ machine \in MonoMachines
     \/ kind = "multi" /\ machine \in MultiMachines
  /\ sim = Engine(kind, machine)
  /\ pc = "ready"
  /\ result = "NONE"
  /\ exit = "none"
  /\ call = NoCall
  /\ cli = NoCli
  /\ probe = NoProbe

\* the frame f of a simulate call becomes the state
Install(f) ==
  /\ sim' = f.sim
  /\ pc' = f.pc
  /\ result' = f.result
  /\ exit' = f.exit

\* a caller of the library calls simulate(input_word, enable_trace, max_steps)
\* with a budget of the set B
SimulateWith(B) ==
  /\ ~cli.on
  /\ pc # "running"
  /\ \E input_word \in Words(machine), enable_trace \in BOOLEAN, max_steps \in B :
       /\ Install(simulate_enter(kind, machine, sim, input_word, enable_trace,
                                 max_steps))
       /\ call' = NextCall(input_word, enable_trace, max_steps)
  /\ UNCHANGED <<machine, kind, cli, probe>>

Simulate == SimulateWith(Budgets)

\* a call of simulate with a budget max_steps > 0
SimulateBudgeted == SimulateWith(Budgets \ {0})

\* one iteration of the main loop of simulate; under the command line the
\* result is printed when simulate returns
Loop ==
  /\ pc = "running"
  /\ sim.current_config.step_count < MaxRun
  /\ LET f == simulate_loop(kind, machine, sim)
     IN /\ Install(f)
        /\ cli' = IF cli.on /\ f.pc = "returned"
                  THEN MainPrintResult(cli, f.result) ELSE cli
  /\ UNCHANGED <<machine, kind, call, probe>>

Next == Simulate \/ Loop

Spec == Init /\ [][Next]_vars

NextLive == SimulateBudgeted \/ Loop

\* an engine on no machine or on a machine over a one-letter input alphabet
InitLive ==
  /\ Init
  /\ machine = nullptr \/ Cardinality(machine.input_alphabet) = 1

\* the callers that pass a budget; simulate is a synchronous loop, an
\* iteration that can run does run
SpecLive == InitLive /\ [][NextLive]_vars /\ WF_vars(Loop)

(***************************************************************************)
(* The command line: a machine that loaded (is_valid() held), the options  *)
(* fixed for the process, one word per line.                               *)
(***************************************************************************)
InitCli ==
  /\ \/ kind = "mono" /\ machine \in ValidMonoMachines
     \/ kind = "multi" /\ machine \in ValidMultiMachines
  /\ sim = Engine(kind, machine)
  /\ pc = "ready"
  /\ result = "NONE"
  /\ exit = "none"
  /\ call = NoCall
  /\ \E strict_mode \in BOOLEAN, trace \in BOOLEAN, max_steps \in Budgets :
       cli = [on |-> TRUE, strict_mode |-> strict_mode, trace |-> trace,
              max_steps |-> max_steps, lines |-> <<>>, out |-> <<>>, err |-> 0]
  /\ probe = NoProbe

\* main reads a line: the alphabet gate, then simulate
MainLine ==
  /\ cli.on
  /\ pc # "running"
  /\ Len(cli.lines) < MaxLines
  /\ \E word \in Words(machine) :
       LET read == [cli EXCEPT !.lines = Append(cli.lines, word)]
       IN IF ~word_in_alphabet(kind, machine, word)
          THEN /\ cli' = MainRejectWord(read)
               /\ UNCHANGED <<sim, pc, result, exit, call>>
          ELSE LET f == simulate_enter(kind, machine, sim, word, cli.trace,
                                       cli.max_steps)
               IN /\ Install(f)
                  /\ call' = NextCall(word, cli.trace, cli.max_steps)
                  /\ cli' = IF f.pc = "returned"
                            THEN MainPrintResult(read, f.result) ELSE read
  /\ UNCHANGED <<machine, kind, probe>>

NextCli == MainLine \/ Loop

SpecCli == InitCli /\ [][NextCli]_vars

(***************************************************************************)
(* Properties of the engines.                                              *)
(***************************************************************************)
\* the call of simulate in the state passed its two preconditions
Ran == exit \notin {"none", "no_machine", "invalid_machine", "invalid_word"}

\* the tape positions a run of at most MaxRun steps can tell apart, and one
\* more on each side
Window == (0 - MaxRun - 1) .. (MaxRun + MaxWordLen + 1)

\* the symbol a read at absolute position p of tape t returns
SymbolAt(t, p) == Tape_read(Tape_set_head_position(t, p))

\* configurations c and d of kind k are the same configuration of the
\* machine: state, every head, every tape position
SameConfiguration(k, c, d) ==
  /\ c.current_state = d.current_state
  /\ Len(TapesOf(k, c)) = Len(TapesOf(k, d))
  /\ \A i \in 1 .. Len(TapesOf(k, c)) :
       /\ TapesOf(k, c)[i].head = TapesOf(k, d)[i].head
       /\ \A p \in Window :
            SymbolAt(TapesOf(k, c)[i], p) = SymbolAt(TapesOf(k, d)[i], p)

\* engine s, stepped with neither budget nor fingerprints, reaches an
\* accepting configuration or one with no transition within n steps
RECURSIVE Halts(_, _, _, _)
Halts(k, M, s, n) ==
  IF k = "mono"
  THEN \/ Simulator_is_accepting_state(M, s)
       \/ ~Simulator_has_applicable_transition(M, s)
       \/ n > 0 /\ Halts(k, M, Simulator_step(M, s).sim, n - 1)
  ELSE \/ MultiSimulator_is_accepting_state(M, s)
       \/ ~MultiSimulator_has_applicable_transition(M, s)
       \/ n > 0 /\ Halts(k, M, MultiSimulator_step(M, s).sim, n - 1)

\* C1: when simulate has returned INFINITE and is_infinite_loop_detected()
\* is true, the run stopped on a revisited fingerprint, not on the budget.
C1_LoopDetectedMeansRevisit ==
  (pc = "returned" /\ result = "INFINITE" /\ is_infinite_loop_detected(kind, sim))
    => exit = "revisit"

\* C2: when simulate returns INFINITE on a revisited fingerprint, the new
\* configuration equals one recorded earlier in the run in state, heads and
\* every tape position, and the run without a budget does not halt.
C2_RevisitIsRepetition ==
  (pc = "returned" /\ exit = "revisit" /\ sim.trace_enabled)
    => /\ \E i \in 1 .. Len(sim.trace) :
            SameConfiguration(kind, sim.trace[i], sim.current_config)
       /\ ~Halts(kind, machine, sim, MaxRun)


\* the result of running the call of the state again with budget n
ResultWithBudget(n) ==
  simulate(kind, machine, sim, call.input_word, call.enable_trace, n).result

\* C3 (as written): a run that returned ACCEPTED or REJECTED after s steps
\* returns the same result under every budget N' >= s.
C3_SameResultFromBudgetS ==
  (pc = "returned" /\ result \in {"ACCEPTED", "REJECTED"})
    => \A n \in 1 .. MaxRun :
         n >= sim.current_config.step_count => ResultWithBudget(n) = result

\* C3: a run that returned ACCEPTED or REJECTED after s steps returns the
\* same result under every budget N' > s and under the budget 0 of an
\* unbounded run.
C3_SameResultAboveBudgetS ==
  (pc = "returned" /\ result \in {"ACCEPTED", "REJECTED"})
    => \A n \in 0 .. MaxRun :
         (n = 0 \/ n > sim.current_config.step_count)
           => ResultWithBudget(n) = result

\* a run has accepted after at least one step
C3_Witness ==
  /\ pc = "returned" /\ result = "ACCEPTED"
  /\ sim.current_config.step_count > 0
  /\ sim.current_config.step_count < MaxRun

\* C4: a run that reaches an accepting state with the step that brings
\* step_count to max_steps > 0 returns INFINITE.
C4_BudgetBeforeAccept ==
  (/\ pc = "returned" /\ Ran
   /\ sim.max_steps > 0
   /\ sim.current_config.step_count = sim.max_steps
   /\ sim.current_config.current_state \in machine.accept_states)
    => result = "INFINITE"

\* a run has returned in an accepting state with its budget used up
C4_Witness ==
  /\ pc = "returned" /\ Ran
  /\ sim.max_steps > 0
  /\ sim.current_config.step_count = sim.max_steps
  /\ sim.current_config.current_state \in machine.accept_states
  /\ result = "INFINITE" /\ exit = "budget"

\* C5: an iteration that begins in an accepting state with the budget not
\* exhausted returns ACCEPTED and leaves the configuration as it is, whether
\* or not a transition is defined there.
C5_AcceptIsTerminal ==
  [][(/\ pc = "running"
      /\ sim.current_config.current_state \in machine.accept_states
      /\ ~(sim.max_steps > 0 /\ sim.current_config.step_count >= sim.max_steps))
       => /\ pc' = "returned"
          /\ result' = "ACCEPTED"
          /\ sim'.current_config = sim.current_config]_vars

\* the transition the machine defines for the current configuration, or nullptr
CurrentTransition ==
  IF kind = "mono"
  THEN TuringMachine_get_transition(machine, sim.current_config.current_state,
                                    Tape_read(sim.current_config.tape))
  ELSE MultiTuringMachine_get_transition(machine,
         sim.current_config.current_state, ReadAll(sim.current_config.tapes))

\* a run has accepted in a configuration that has a transition
C5_Witness ==
  /\ pc = "returned" /\ result = "ACCEPTED" /\ exit = "accept"
  /\ sim.current_config.current_state \in machine.accept_states
  /\ CurrentTransition # nullptr

\* C6: on a valid machine and a word over its input alphabet simulate does
\* not return ERROR, the failure branch of step() is not taken, and a run
\* that stops in a non-accepting configuration without a transition returns
\* REJECTED.
C6_NoErrorOnValidInput ==
  (/\ pc = "returned"
   /\ is_valid(kind, machine)
   /\ is_valid_input_word(kind, machine, call.input_word))
    => /\ result # "ERROR"
       /\ exit # "step_failed"
       /\ (/\ exit \notin {"budget", "revisit"}
           /\ sim.current_config.current_state \notin machine.accept_states
           /\ CurrentTransition = nullptr) => result = "REJECTED"

\* a run on valid input has stopped for want of a transition
C6_Witness ==
  /\ pc = "returned"
  /\ is_valid(kind, machine)
  /\ is_valid_input_word(kind, machine, call.input_word)
  /\ exit = "no_transition" /\ result = "REJECTED"
  /\ CurrentTransition = nullptr


\* position p holds no input character and is beyond the reach of the head
\* in the run of the state
Untouched(p) ==
  /\ p < 0 \/ p >= Len(call.input_word)
  /\ p < 0 - sim.current_config.step_count \/ p > sim.current_config.step_count

\* C7: in both engines and for every blank the machine declares, a position
\* that holds no input and was never written reads as the machine's blank.
C7_UntouchedCellsReadMachineBlank ==
  (pc \in {"running", "returned"} /\ Ran)
    => \A i \in 1 .. Len(TapesOf(kind, sim.current_config)) :
         \A p \in Window :
           Untouched(p)
             => SymbolAt(TapesOf(kind, sim.current_config)[i], p)
                  = machine.blank_symbol

\* the call of the state, made on a new 1-tape multi engine built from the
\* components and transitions of the mono machine
OnOneTapeMulti ==
  simulate("multi", AsOneTape(machine), MultiSimulator(AsOneTape(machine)),
           call.input_word, call.enable_trace, call.max_steps)

\* C8: the mono engine and the 1-tape multi engine on the same components
\* return the same result with the same final state, step count, head
\* position and tape content.
C8_MonoEqualsOneTapeMulti ==
  (pc = "returned" /\ kind = "mono" /\ Ran)
    => LET m == OnOneTapeMulti
       IN /\ m.result = result
          /\ m.sim.current_config.current_state = sim.current_config.current_state
          /\ m.sim.current_config.step_count = sim.current_config.step_count
          /\ m.sim.current_config.tapes[1].head = sim.current_config.tape.head
          /\ Tape_get_content(m.sim.current_config.tapes[1])
               = Tape_get_content(sim.current_config.tape)

\* the call of the state, made on a newly constructed engine with the trace
\* flag inverted
OnNewEngine ==
  simulate(kind, machine, Engine(kind, machine), call.input_word,
           ~call.enable_trace, call.max_steps)

\* C9 (as written): for every word, valid or not, simulate returns the result
\* and final configuration of a new engine, whatever was simulated before
\* and whatever the trace flag.
C9_SameOutcomeEveryWord ==
  pc = "returned"
    => /\ OnNewEngine.result = result
       /\ OnNewEngine.sim.current_config = sim.current_config

\* C9: for every word, valid or not, simulate returns the result of a new
\* engine whatever was simulated before and whatever the trace flag, and for
\* a call that passed the preconditions the final configuration of a new
\* engine too.
C9_SameOutcomeWhenRun ==
  pc = "returned"
    => /\ OnNewEngine.result = result
       /\ Ran => OnNewEngine.sim.current_config = sim.current_config

\* a second or later call on the engine has run and returned
C9_Witness ==
  /\ pc = "returned" /\ Ran /\ call.again
  /\ sim.current_config.step_count > 0

\* the lines read so far that have a character outside the input alphabet
LinesOutsideAlphabet ==
  {i \in 1 .. Len(cli.lines) : ~word_in_alphabet(kind, machine, cli.lines[i])}

StructuralCase(w) ==
  \/ machine = nullptr
  \/ ~is_valid(kind, machine)
  \/ ~is_valid_input_word(kind, machine, w)

\* C11: a call of simulate in one of the three structural cases returns ERROR
\* with a non-empty last_error and changes no other field of the engine: no
\* reset and no step took place.
C11_StructuralErrors ==
  [][(pc # "running" /\ StructuralCase(call'.input_word))
       => /\ pc' = "returned"
          /\ result' = "ERROR"
          /\ sim'.last_error # ""
          /\ sim' = [sim EXCEPT !.last_error = sim'.last_error]]_vars

\* a call with a word outside the alphabet has returned ERROR on an engine
\* that holds the configuration of an earlier run
C11_Witness ==
  /\ pc = "returned" /\ result = "ERROR" /\ exit = "invalid_word"
  /\ sim.last_error # ""
  /\ call.again
  /\ sim.current_config.step_count > 0


\* C12: with max_steps > 0 a call of simulate that passed the preconditions
\* returns, and its step_count never exceeds max_steps.
C12_BudgetedRunTerminates ==
  /\ [](sim.max_steps > 0
          => sim.current_config.step_count <= sim.max_steps)
  /\ ((pc = "running" /\ sim.max_steps > 0) ~> (pc = "returned"))

\* a run of a machine that never halts has been stopped by its budget
C12_Witness ==
  /\ pc = "returned" /\ exit = "budget" /\ result = "INFINITE"
  /\ sim.max_steps > 0
  /\ sim.current_config.step_count = sim.max_steps
  /\ CurrentTransition # nullptr


\* the fingerprint of the current configuration of engine s of kind k
get_configuration_key(k, s) ==
  IF k = "mono" THEN Simulator_get_configuration_key(s)
  ELSE MultiSimulator_get_configuration_key(s)

\* C13: with max_steps = 0 an iteration of simulate returns INFINITE only
\* after a step into a configuration whose fingerprint was already in the
\* visited set; every other return is ACCEPTED in an accepting state or
\* REJECTED where no transition applies, and the step count stops no run.
C13_BudgetZeroIsUnbounded ==
  [][(pc = "running" /\ sim.max_steps = 0 /\ pc' = "returned")
       => \/ /\ result' = "INFINITE"
             /\ sim'.current_config.step_count = sim.current_config.step_count + 1
             /\ get_configuration_key(kind, sim') \in sim.visited_configurations
          \/ /\ result' = "ACCEPTED"
             /\ sim' = sim
             /\ sim.current_config.current_state \in machine.accept_states
          \/ /\ result' = "REJECTED"
             /\ sim' = sim
             /\ CurrentTransition = nullptr]_vars

\* a run without budget is in progress after more steps than any budget of
\* the model allows
C13_Witness ==
  /\ pc = "running" /\ sim.max_steps = 0
  /\ sim.current_config.step_count > MaxBudget + 1


(***************************************************************************)
(* Fingerprints of two configurations.  A state name is a token of the     *)
(* definition file and a tape symbol any single character, '|' included.   *)
(***************************************************************************)
KeyStates == {"q", "q|0"}
KeySymbols == {"1", "|"}

\* the tapes with blank '.', cells over KeySymbols at 0 .. MaxKeyPos, head in H
KeyTapes(H) ==
  {[cells |-> c, head |-> h, blank |-> DefaultBlank] :
     c \in UNION {[P -> KeySymbols] : P \in SUBSET (0 .. MaxKeyPos)}, h \in H}

\* mono configurations, and 2-tape configurations with both heads at 0
KeyConfigurations(k) ==
  IF k = "mono"
  THEN {[current_state |-> q, tape |-> t, step_count |-> 0] :
          q \in KeyStates, t \in KeyTapes(0 .. MaxKeyPos)}
  ELSE {[current_state |-> "q", tapes |-> <<t1, t2>>, step_count |-> 0] :
          t1 \in KeyTapes({0}), t2 \in KeyTapes({0})}

to_compact_string(k, c) ==
  IF k = "mono" THEN Configuration_to_compact_string(c)
  ELSE MultiConfiguration_to_compact_string(c)

InitKey ==
  /\ kind \in {"mono", "multi"}
  /\ machine = nullptr
  /\ sim = Engine(kind, machine)
  /\ pc = "ready" /\ result = "NONE" /\ exit = "none"
  /\ call = NoCall /\ cli = NoCli
  /\ \E a \in KeyConfigurations(kind), b \in KeyConfigurations(kind) :
       probe = [on |-> TRUE, a |-> a, b |-> b, done |-> FALSE,
                key_a |-> "", key_b |-> ""]

\* to_compact_string() is called on both configurations
TakeKeys ==
  /\ probe.on /\ ~probe.done
  /\ probe' = [probe EXCEPT !.done = TRUE,
                            !.key_a = to_compact_string(kind, probe.a),
                            !.key_b = to_compact_string(kind, probe.b)]
  /\ UNCHANGED <<machine, kind, sim, pc, result, exit, call, cli>>

NextKey == TakeKeys

SpecKey == InitKey /\ [][NextKey]_vars

\* configurations c and d have the same state, the same head position on
\* every tape and the same minimal content on every tape
SameKeyFields(k, c, d) ==
  /\ c.current_state = d.current_state
  /\ \A i \in 1 .. Len(TapesOf(k, c)) :
       /\ TapesOf(k, c)[i].head = TapesOf(k, d)[i].head
       /\ Tape_get_content(TapesOf(k, c)[i]) = Tape_get_content(TapesOf(k, d)[i])

\* C14: two configurations have equal fingerprints if and only if they have
\* the same state, the same head positions and the same minimal contents.
C14_FingerprintEquivalence ==
  (probe.on /\ probe.done)
    => ((probe.key_a = probe.key_b) <=> SameKeyFields(kind, probe.a, probe.b))


\* C15: in every configuration of a run no tape stores a cell that holds the
\* machine's blank.
C15_NoBlankCellStored ==
  (pc = "running" \/ Ran)
    => \A i \in 1 .. Len(TapesOf(kind, sim.current_config)) :
         LET t == TapesOf(kind, sim.current_config)[i]
         IN \A p \in DOMAIN t.cells : t.cells[p] # machine.blank_symbol


\* the configuration one step() of the machine after configuration c
AfterStep(k, M, s, c) ==
  IF k = "mono" THEN Simulator_step(M, [s EXCEPT !.current_config = c]).sim.current_config
  ELSE MultiSimulator_step(M, [s EXCEPT !.current_config = c]).sim.current_config

\* c is the initial configuration of machine M on word w: initial state,
\* step 0, heads at 0, w on the first tape from position 0, nothing else
IsInitialConfiguration(k, M, c, w) ==
  /\ c.current_state = M.initial_state
  /\ c.step_count = 0
  /\ \A i \in 1 .. Len(TapesOf(k, c)) :
       LET t == TapesOf(k, c)[i]
       IN /\ t.head = 0
          /\ DOMAIN t.cells \subseteq (IF i = 1 THEN 0 .. Len(w) - 1 ELSE {})
          /\ i = 1 => \A p \in 0 .. Len(w) - 1 : SymbolAt(t, p) = w[p + 1]

\* C16: after simulate returns a result other than ERROR with the trace
\* enabled, the trace starts with the initial configuration, its entry
\* number i (from 0) has step_count i, each entry is one step after the
\* entry before it, and the trace ends with the final configuration unless
\* that configuration is the one whose fingerprint repeated, which is not
\* in the trace.
C16_TraceInStepOrder ==
  (pc = "returned" /\ Ran /\ result # "ERROR" /\ sim.trace_enabled)
    => /\ Len(sim.trace) >= 1
       /\ IsInitialConfiguration(kind, machine, sim.trace[1], call.input_word)
       /\ \A i \in 1 .. Len(sim.trace) : sim.trace[i].step_count = i - 1
       /\ \A i \in 1 .. Len(sim.trace) - 1 :
            sim.trace[i + 1] = AfterStep(kind, machine, sim, sim.trace[i])
       /\ IF exit = "revisit"
          THEN /\ Len(sim.trace) = sim.current_config.step_count
               /\ sim.current_config
                    = AfterStep(kind, machine, sim, sim.trace[Len(sim.trace)])
          ELSE sim.trace[Len(sim.trace)] = sim.current_config

\* a traced run of two steps or more has stopped on a repeated fingerprint
C16_Witness ==
  /\ pc = "returned" /\ exit = "revisit" /\ sim.trace_enabled
  /\ Len(sim.trace) >= 2


(***************************************************************************)
(* The builder operations of TuringMachine and MultiTuringMachine.  The    *)
(* two classes share them except for add_transition and set_num_tapes; a   *)
(* multi machine has the field num_tapes.  An operation returns the        *)
(* machine afterwards and whether it threw std::invalid_argument.          *)
(***************************************************************************)
Threw(M) == [threw |-> TRUE, tm |-> M]
Done(M) == [threw |-> FALSE, tm |-> M]

TuringMachine(blank_symbol) ==
  [states |-> {}, input_alphabet |-> {}, tape_alphabet |-> {blank_symbol},
   initial_state |-> "", accept_states |-> {}, blank_symbol |-> blank_symbol,
   transitions |-> <<>>]

MultiTuringMachine(num_tapes, blank_symbol) ==
  [states |-> {}, input_alphabet |-> {}, tape_alphabet |-> {blank_symbol},
   initial_state |-> "", accept_states |-> {}, blank_symbol |-> blank_symbol,
   num_tapes |-> num_tapes, transitions |-> <<>>]

TuringMachine_add_state(M, state) ==
  IF state = "" THEN Threw(M)
  ELSE Done([M EXCEPT !.states = @ \cup {state}])

TuringMachine_add_input_symbol(M, symbol) ==
  IF symbol = M.blank_symbol THEN Threw(M)
  ELSE Done([M EXCEPT !.input_alphabet = @ \cup {symbol},
                      !.tape_alphabet = @ \cup {symbol}])

TuringMachine_add_tape_symbol(M, symbol) ==
  Done([M EXCEPT !.tape_alphabet = @ \cup {symbol}])

TuringMachine_set_initial_state(M, state) ==
  TuringMachine_add_state([M EXCEPT !.initial_state = state], state)

TuringMachine_add_accept_state(M, state) ==
  TuringMachine_add_state([M EXCEPT !.accept_states = @ \cup {state}], state)

TuringMachine_set_blank_symbol(M, symbol) ==
  IF M.blank_symbol # symbol
  THEN Done([M EXCEPT !.blank_symbol = symbol,
                      !.tape_alphabet = @ \cup {symbol}])
  ELSE Done(M)

MultiTuringMachine_set_num_tapes(M, num_tapes) ==
  IF num_tapes = 0 THEN Threw(M) ELSE Done([M EXCEPT !.num_tapes = num_tapes])

\* transitions_[key] = transition
Stored(transitions, key, transition) ==
  [k \in DOMAIN transitions \cup {key} |->
     IF k = key THEN transition ELSE transitions[k]]

\* an add_transition that stores the edge without looking for its key
TuringMachine_add_transition_overwriting(M, transition) ==
  IF transition.from_state \notin M.states THEN Threw(M)
  ELSE IF transition.to_state \notin M.states THEN Threw(M)
  ELSE LET key == <<transition.from_state, transition.read_symbol>>
           M1 == [M EXCEPT !.tape_alphabet =
                    @ \cup {transition.read_symbol, transition.write_symbol}]
       IN Done([M1 EXCEPT !.transitions = Stored(@, key, transition)])

\* an add_transition that does not look for the states of the edge in Q
TuringMachine_add_transition_undeclared(M, transition) ==
  LET key == <<transition.from_state, transition.read_symbol>>
      M1 == [M EXCEPT !.tape_alphabet =
               @ \cup {transition.read_symbol, transition.write_symbol}]
  IN IF key \in DOMAIN M1.transitions THEN Threw(M1)
     ELSE Done([M1 EXCEPT !.transitions = Stored(@, key, transition)])

TuringMachine_add_transition(M, transition) ==
  IF transition.from_state \notin M.states THEN Threw(M)
  ELSE IF transition.to_state \notin M.states THEN Threw(M)
  ELSE LET key == <<transition.from_state, transition.read_symbol>>
           M1 == [M EXCEPT !.tape_alphabet =
                    @ \cup {transition.read_symbol, transition.write_symbol}]
       IN IF key \in DOMAIN M1.transitions THEN Threw(M1)
          ELSE Done([M1 EXCEPT !.transitions = Stored(@, key, transition)])

MultiTuringMachine_add_transition(M, transition) ==
  IF MultiTransition_get_num_tapes(transition) # M.num_tapes THEN Threw(M)
  ELSE LET from == TuringMachine_add_state(M, transition.from_state)
           to == TuringMachine_add_state(from.tm, transition.to_state)
           key == <<transition.from_state, transition.read_symbols>>
           M1 == [to.tm EXCEPT !.tape_alphabet =
                    @ \cup Range(transition.read_symbols)
                      \cup Range(transition.write_symbols)]
       IN IF from.threw THEN from
          ELSE IF to.threw THEN to
          ELSE IF key \in DOMAIN M1.transitions THEN Threw(M1)
          ELSE Done([M1 EXCEPT !.transitions = Stored(@, key, transition)])

TuringMachine_clear(M) ==
  [M EXCEPT !.states = {}, !.input_alphabet = {},
            !.tape_alphabet = {M.blank_symbol}, !.initial_state = "",
            !.accept_states = {}, !.transitions = <<>>]


\* one builder call [op, arg] on machine M of class k
Call(k, M, c) ==
  CASE c.op = "add_state" -> TuringMachine_add_state(M, c.arg)
    [] c.op = "add_input_symbol" -> TuringMachine_add_input_symbol(M, c.arg)
    [] c.op = "add_tape_symbol" -> TuringMachine_add_tape_symbol(M, c.arg)
    [] c.op = "set_initial_state" -> TuringMachine_set_initial_state(M, c.arg)
    [] c.op = "add_accept_state" -> TuringMachine_add_accept_state(M, c.arg)
    [] c.op = "set_blank_symbol" -> TuringMachine_set_blank_symbol(M, c.arg)
    [] c.op = "set_num_tapes" -> MultiTuringMachine_set_num_tapes(M, c.arg)
    [] c.op = "add_transition" ->
         IF k = "mono" THEN TuringMachine_add_transition(M, c.arg)
         ELSE MultiTuringMachine_add_transition(M, c.arg)
    [] OTHER -> Done(TuringMachine_clear(M))

\* the calls of a sequence in order, up to the first that throws
RECURSIVE RunCalls(_, _, _)
RunCalls(k, M, calls) ==
  IF calls = <<>> THEN Done(M)
  ELSE LET r == Call(k, M, Head(calls))
       IN IF r.threw THEN r ELSE RunCalls(k, r.tm, Tail(calls))

\* the calls op(section[1]), op(section[2]), ...
CallsOf(op, section) ==
  [i \in 1 .. Len(section) |-> [op |-> op, arg |-> section[i]]]

(***************************************************************************)
(* The parser.  A definition file is the record of its sections, each a    *)
(* sequence of tokens; a multi file begins with MULTICINTA <num_tapes>.    *)
(***************************************************************************)
\* the builder calls load_from_stream / load_multi_from_file make for a file
FileCalls(k, file) ==
  (IF k = "mono" THEN <<>> ELSE CallsOf("set_num_tapes", <<file.num_tapes>>))
    \o CallsOf("add_state", file.states)
    \o CallsOf("add_input_symbol", file.input_alphabet)
    \o CallsOf("add_tape_symbol", file.tape_alphabet)
    \o CallsOf("set_initial_state", <<file.initial_state>>)
    \o CallsOf("set_blank_symbol", <<file.blank_symbol>>)
    \o CallsOf("add_accept_state", file.accept_states)
    \o CallsOf("add_transition", file.transitions)

\* load_from_stream (mono) and load_multi_from_file on a machine object that
\* main has just constructed: the value returned and the machine afterwards
Parser_load(k, file) ==
  LET object == IF k = "mono" THEN TuringMachine(DefaultBlank)
                ELSE MultiTuringMachine(1, DefaultBlank)
      built == RunCalls(k, TuringMachine_clear(object), FileCalls(k, file))
  IN [ok |-> /\ ~built.threw
             /\ IF k = "mono" THEN TuringMachine_is_valid(built.tm)
                ELSE MultiTuringMachine_is_valid(built.tm),
      machine |-> built.tm]


\* the transition lines of the files: an edge, a second edge on its key, an
\* edge from a state the file does not declare
FileTransitions ==
  {<<>>,
   <<Transition("q0", "a", "q1", "a", "R")>>,
   <<Transition("q0", "a", "q1", "a", "R"), Transition("q0", "a", "q0", "a", "L")>>,
   <<Transition("qZ", "a", "q1", "a", "R")>>}

\* the line of 1-tape multi transitions for a line of mono transitions
AsMultiLines(lines) ==
  [i \in 1 .. Len(lines) |->
     MultiTransition(lines[i].from_state, <<lines[i].read_symbol>>,
                     lines[i].to_state, <<lines[i].write_symbol>>,
                     <<lines[i].movement>>)]

\* the definition files of class k
Files(k) ==
  {[num_tapes |-> 1, states |-> states, input_alphabet |-> input,
    tape_alphabet |-> tape, initial_state |-> initial, blank_symbol |-> blank,
    accept_states |-> <<"q1">>,
    transitions |-> IF k = "mono" THEN lines ELSE AsMultiLines(lines)] :
     states \in {<<"q1">>, <<"q0", "q1">>},
     input \in {<<"a">>, <<"a", DefaultBlank>>, <<"a", OtherBlank>>},
     tape \in {<<"a">>, <<"a", DefaultBlank>>, <<"a", OtherBlank>>},
     initial \in {"q0", "qInicial"},
     blank \in {DefaultBlank, OtherBlank, "Z"},
     lines \in FileTransitions}

InitLoad ==
  /\ kind \in {"mono", "multi"}
  /\ machine = nullptr
  /\ sim = Engine(kind, machine)
  /\ pc = "ready" /\ result = "NONE" /\ exit = "none"
  /\ call = NoCall /\ cli = NoCli
  /\ \E file \in Files(kind) :
       probe = [on |-> TRUE, file |-> file, loaded |-> FALSE, ok |-> FALSE]

\* main loads the definition file; a machine that loaded is the one the
\* engine is constructed on
Load ==
  /\ probe.on /\ ~probe.loaded
  /\ LET r == Parser_load(kind, probe.file)
     IN /\ probe' = [probe EXCEPT !.loaded = TRUE, !.ok = r.ok]
        /\ machine' = IF r.ok THEN r.machine ELSE machine
        /\ sim' = IF r.ok THEN Engine(kind, r.machine) ELSE sim
  /\ UNCHANGED <<kind, pc, result, exit, call, cli>>

NextLoad == Load

SpecLoad == InitLoad /\ [][NextLoad]_vars

\* the elements of sequence s
Tokens(s) == {s[i] : i \in 1 .. Len(s)}

\* C17: loading a definition file whose initial state is not among the
\* states of its states section fails.
C17_UndeclaredInitialStateFails ==
  (probe.on /\ probe.loaded
     /\ probe.file.initial_state \notin Tokens(probe.file.states))
    => ~probe.ok /\ machine = nullptr

\* C18: loading a definition file (mono or multi) whose blank symbol is not
\* in its tape-alphabet section fails.
C18_UndeclaredBlankFails ==
  (probe.on /\ probe.loaded
     /\ probe.file.blank_symbol \notin Tokens(probe.file.tape_alphabet))
    => ~probe.ok /\ machine = nullptr


(***************************************************************************)
(* The builder: any sequence of mutating calls on one machine.             *)
(***************************************************************************)
BuildStates == {"q0", "q1", ""}

BuildSymbols == {"a", DefaultBlank}

BuildNumTapes == {0, 1, 2}

\* the edges handed to add_transition: two on the key (q0, a), and for the
\* multi class one over two tapes
BuildTransitions(k) ==
  IF k = "mono"
  THEN {Transition("q0", "a", "q1", "a", "R"),
        Transition("q0", "a", "q0", DefaultBlank, "L")}
  ELSE {MultiTransition("q0", <<"a">>, "q1", <<"a">>, <<"R">>),
        MultiTransition("q0", <<"a">>, "q0", <<DefaultBlank>>, <<"L">>),
        MultiTransition("q0", <<"a", "a">>, "q1", <<"a", "a">>, <<"R", "S">>)}

InitBuild ==
  /\ kind \in {"mono", "multi"}
  /\ machine = IF kind = "mono" THEN TuringMachine(DefaultBlank)
               ELSE MultiTuringMachine(1, DefaultBlank)
  /\ sim = Engine(kind, nullptr)
  /\ pc = "ready" /\ result = "NONE" /\ exit = "none"
  /\ call = NoCall /\ cli = NoCli
  /\ probe = [on |-> TRUE, threw |-> FALSE, last |-> nullptr]

\* the effect of one builder call with outcome r; last is the edge an
\* add_transition was given
Built(r, last) ==
  /\ probe.on
  /\ machine' = r.tm
  /\ probe' = [probe EXCEPT !.threw = r.threw, !.last = last]
  /\ UNCHANGED <<kind, sim, pc, result, exit, call, cli>>

AddState ==
  \E state \in BuildStates :
    Built(TuringMachine_add_state(machine, state), nullptr)

AddInputSymbol ==
  \E symbol \in BuildSymbols :
    Built(TuringMachine_add_input_symbol(machine, symbol), nullptr)

AddTapeSymbol ==
  \E symbol \in BuildSymbols :
    Built(TuringMachine_add_tape_symbol(machine, symbol), nullptr)

SetInitialState ==
  \E state \in BuildStates :
    Built(TuringMachine_set_initial_state(machine, state), nullptr)

AddAcceptState ==
  \E state \in BuildStates :
    Built(TuringMachine_add_accept_state(machine, state), nullptr)

SetBlankSymbol ==
  \E symbol \in BuildSymbols :
    Built(TuringMachine_set_blank_symbol(machine, symbol), nullptr)

SetNumTapes ==
  /\ kind = "multi"
  /\ \E num_tapes \in BuildNumTapes :
       Built(MultiTuringMachine_set_num_tapes(machine, num_tapes), nullptr)

AddTransition ==
  \E transition \in BuildTransitions(kind) :
    Built(IF kind = "mono"
          THEN TuringMachine_add_transition(machine, transition)
          ELSE MultiTuringMachine_add_transition(machine, transition),
          transition)

Clear == Built(Done(TuringMachine_clear(machine)), nullptr)

NextBuild ==
  \/ AddState
  \/ AddInputSymbol
  \/ AddTapeSymbol
  \/ SetInitialState
  \/ AddAcceptState
  \/ SetBlankSymbol
  \/ SetNumTapes
  \/ AddTransition
  \/ Clear

SpecBuild == InitBuild /\ [][NextBuild]_vars

\* the (from_state, read tuple) key of an edge of class k
KeyOf(k, transition) ==
  IF k = "mono" THEN <<transition.from_state, transition.read_symbol>>
  ELSE <<transition.from_state, transition.read_symbols>>

\* the symbols an edge of class k reads and writes
SymbolsOf(k, transition) ==
  IF k = "mono" THEN {transition.read_symbol, transition.write_symbol}
  ELSE Range(transition.read_symbols) \cup Range(transition.write_symbols)

\* I1, alphabet closure
I1(M) ==
  /\ M.input_alphabet \subseteq M.tape_alphabet
  /\ M.blank_symbol \in M.tape_alphabet
  /\ M.blank_symbol \notin M.input_alphabet

\* I2, state closure
I2(k, M) ==
  /\ M.initial_state \in M.states
  /\ M.accept_states \subseteq M.states
  /\ \A key \in DOMAIN M.transitions :
       /\ M.transitions[key].from_state \in M.states
       /\ M.transitions[key].to_state \in M.states
       /\ SymbolsOf(k, M.transitions[key]) \subseteq M.tape_alphabet

\* I3, determinism: the table holds each edge under its own key
I3(k, M) ==
  \A key \in DOMAIN M.transitions : KeyOf(k, M.transitions[key]) = key

\* I4, shape
I4(k, M) ==
  k = "multi" =>
    \A key \in DOMAIN M.transitions :
      /\ Len(M.transitions[key].read_symbols) = M.num_tapes
      /\ Len(M.transitions[key].write_symbols) = M.num_tapes
      /\ Len(M.transitions[key].movements) = M.num_tapes

\* C19: after any sequence of builder operations is_valid() is true exactly
\* when I1-I4 hold of the machine.
C19_IsValidIffInvariants ==
  probe.on /\ "threw" \in DOMAIN probe =>
    (is_valid(kind, machine)
       <=> I1(machine) /\ I2(kind, machine) /\ I3(kind, machine)
             /\ I4(kind, machine))

\* a machine that is complete but for its blank, which is an input symbol
C19_Witness ==
  /\ probe.on /\ "threw" \in DOMAIN probe
  /\ ~is_valid(kind, machine)
  /\ machine.blank_symbol \in machine.input_alphabet
  /\ machine.initial_state \in machine.states
  /\ DOMAIN machine.transitions # {}

\* C20: add_transition on a key that already has an edge raises an error
\* and leaves the edge stored first as the one get_transition returns; the
\* table never holds two edges for one key.
C20_DeterministicTable ==
  [][("threw" \in DOMAIN probe' /\ probe'.last # nullptr)
       => /\ I3(kind, machine')
          /\ KeyOf(kind, probe'.last) \in DOMAIN machine.transitions
               => /\ probe'.threw
                  /\ KeyOf(kind, probe'.last) \in DOMAIN machine'.transitions
                  /\ machine'.transitions[KeyOf(kind, probe'.last)]
                       = machine.transitions[KeyOf(kind, probe'.last)]]_vars

\* a second edge for a key was refused and the first one is still stored
C20_Witness ==
  /\ probe.on /\ "threw" \in DOMAIN probe
  /\ probe.threw /\ probe.last # nullptr
  /\ KeyOf(kind, probe.last) \in DOMAIN machine.transitions
  /\ machine.transitions[KeyOf(kind, probe.last)] # probe.last
  /\ (kind = "multi" => Len(probe.last.read_symbols) = machine.num_tapes)


(***************************************************************************)
(* The example machines of the README, run on the words of their tests.    *)
(***************************************************************************)
\* the longest word given to the odd-zeros machine
MaxExampleLen == 4
\* the longest summand given to the unary-sum machine
MaxUnary == 2
\* the largest budget given to an example
MaxExampleBudget == 8
\* the cap on the step count of an example run
MaxExampleRun == 16

\* 1^n
RECURSIVE Ones(_)
Ones(n) == IF n = 0 THEN <<>> ELSE <<"1">> \o Ones(n - 1)

\* the words 1^m 0 1^n with m, n >= 1
UnaryWords ==
  {Ones(m) \o <<"0">> \o Ones(n) : m \in 1 .. MaxUnary, n \in 1 .. MaxUnary}

ExampleWords(k) ==
  IF k = "mono" THEN WordsOver({"0", "1"}, MaxExampleLen) ELSE UnaryWords

ExampleBudgets == 0 .. MaxExampleBudget

InitExample ==
  /\ \/ kind = "mono" /\ machine = OddZeros(DefaultBlank)
     \/ kind = "multi" /\ machine = UnarySum(DefaultBlank)
  /\ sim = Engine(kind, machine)
  /\ pc = "ready" /\ result = "NONE" /\ exit = "none"
  /\ call = NoCall /\ cli = NoCli /\ probe = NoProbe

\* the one simulate call of a run of the program on an example
SimulateExample ==
  /\ pc = "ready"
  /\ \E input_word \in ExampleWords(kind), enable_trace \in BOOLEAN,
        max_steps \in ExampleBudgets :
       /\ Install(simulate_enter(kind, machine, sim, input_word, enable_trace,
                                 max_steps))
       /\ call' = NextCall(input_word, enable_trace, max_steps)
  /\ UNCHANGED <<machine, kind, cli, probe>>

LoopExample ==
  /\ pc = "running"
  /\ sim.current_config.step_count < MaxExampleRun
  /\ Install(simulate_loop(kind, machine, sim))
  /\ UNCHANGED <<machine, kind, call, cli, probe>>

NextExample == SimulateExample \/ LoopExample

SpecExample == InitExample /\ [][NextExample]_vars

\* the number of 0s in word w
RECURSIVE Zeros(_)
Zeros(w) ==
  IF w = <<>> THEN 0
  ELSE (IF Head(w) = "0" THEN 1 ELSE 0) + Zeros(Tail(w))

\* the characters of word w as one string
RECURSIVE AsString(_)
AsString(w) == IF w = <<>> THEN "" ELSE Head(w) \o AsString(Tail(w))

\* C21: on the odd-zeros machine, with max_steps = 0 or max_steps > |w| + 1,
\* simulate returns ACCEPTED when w has an odd number of 0s and REJECTED
\* otherwise.
C21_OddZerosRecognised ==
  (/\ kind = "mono" /\ machine = OddZeros(DefaultBlank)
   /\ call.max_steps = 0 \/ call.max_steps > Len(call.input_word) + 1)
    => /\ pc # "running" \/ sim.current_config.step_count <= Len(call.input_word) + 1
       /\ pc = "returned"
            => result = IF Zeros(call.input_word) % 2 = 1
                        THEN "ACCEPTED" ELSE "REJECTED"

\* 1001 is rejected and 0100 accepted, both under a budget
C21_Witness ==
  /\ kind = "mono" /\ pc = "returned"
  /\ call.max_steps = Len(call.input_word) + 2
  /\ \/ call.input_word = <<"1", "0", "0", "1">> /\ result = "REJECTED"
     \/ call.input_word = <<"0", "1", "0", "0">> /\ result = "ACCEPTED"

\* C22: on the unary-sum machine, for 1^m 0 1^n with m, n >= 1 and a budget
\* that suffices, simulate returns ACCEPTED and tape 2 ends as 1^(m+n).
C22_UnarySumAdds ==
  (/\ kind = "multi" /\ machine = UnarySum(DefaultBlank)
   /\ call.max_steps = 0 \/ call.max_steps > Len(call.input_word) + 2)
    => /\ pc # "running" \/ sim.current_config.step_count <= Len(call.input_word) + 2
       /\ pc = "returned"
            => /\ result = "ACCEPTED"
               /\ Tape_get_content(sim.current_config.tapes[2])
                    = AsString(Ones(Len(call.input_word) - 1))

\* 11 + 11 has been added
C22_Witness ==
  /\ kind = "multi" /\ pc = "returned" /\ result = "ACCEPTED"
  /\ call.input_word = <<"1", "1", "0", "1", "1">>
  /\ call.max_steps = Len(call.input_word) + 3
  /\ Tape_get_content(sim.current_config.tapes[2]) = "1111"


(***************************************************************************)
(* Tape on its own: any sequence of reset, write and moves on one tape.    *)
(***************************************************************************)
\* the head stays within MaxHead cells of position 0
MaxHead == 2
\* the longest string given to reset
MaxTapeWord == 2

TapeSymbols == {"a", DefaultBlank, OtherBlank}

InitTape ==
  /\ kind = "mono" /\ machine = nullptr
  /\ sim = Engine(kind, machine)
  /\ pc = "ready" /\ result = "NONE" /\ exit = "none"
  /\ call = NoCall /\ cli = NoCli
  /\ \E blank_symbol \in Blanks :
       probe = [on |-> TRUE, tape |-> Tape(blank_symbol),
                last |-> [op |-> "Tape", arg |-> blank_symbol]]

\* the tape becomes t by the call op(arg)
TapeBecomes(t, op, arg) ==
  /\ probe.on
  /\ probe' = [probe EXCEPT !.tape = t, !.last = [op |-> op, arg |-> arg]]
  /\ UNCHANGED <<machine, kind, sim, pc, result, exit, call, cli>>

TapeWrite ==
  \E symbol \in TapeSymbols :
    TapeBecomes(Tape_write(probe.tape, symbol), "write", symbol)

TapeMoveLeft ==
  /\ probe.tape.head > 0 - MaxHead
  /\ TapeBecomes(Tape_move_left(probe.tape), "move_left", "")

TapeMoveRight ==
  /\ probe.tape.head < MaxHead
  /\ TapeBecomes(Tape_move_right(probe.tape), "move_right", "")

TapeReset ==
  \E input_string \in WordsOver(TapeSymbols, MaxTapeWord) :
    TapeBecomes(Tape_reset(probe.tape, input_string), "reset", input_string)

TapeSetHeadPosition ==
  \E position \in (0 - MaxHead) .. MaxHead :
    TapeBecomes(Tape_set_head_position(probe.tape, position),
                "set_head_position", position)

NextTape ==
  \/ TapeWrite
  \/ TapeMoveLeft
  \/ TapeMoveRight
  \/ TapeReset
  \/ TapeSetHeadPosition

SpecTape == InitTape /\ [][NextTape]_vars

\* the positions a tape of the model can hold a symbol at, and one more on
\* each side
TapeWindow == (0 - MaxHead - 1) .. (MaxHead + MaxTapeWord + 1)

\* tape t with the cell under its head as it was before any write
NeverWritten(t) ==
  [t EXCEPT !.cells = [p \in (DOMAIN t.cells) \ {t.head} |-> t.cells[p]]]

\* C23: write(s) followed by read() returns s; after write(blank)
\* get_content() is the string of the tape on which that position was never
\* written.
C23_WriteThenRead ==
  [][probe'.last.op = "write"
       => /\ Tape_read(probe'.tape) = probe'.last.arg
          /\ \A p \in TapeWindow \ {probe.tape.head} :
               SymbolAt(probe'.tape, p) = SymbolAt(probe.tape, p)
          /\ probe'.last.arg = probe.tape.blank
               => Tape_get_content(probe'.tape)
                    = Tape_get_content(NeverWritten(probe.tape))]_vars

\* the blank has been written over a symbol left of position 0, and read
C23_Witness ==
  /\ probe.on /\ probe.last.op = "write"
  /\ probe.last.arg = probe.tape.blank
  /\ probe.tape.head < 0
  /\ Tape_read(probe.tape) = probe.tape.blank
  /\ \E p \in DOMAIN probe.tape.cells : p < probe.tape.head
  /\ \E p \in DOMAIN probe.tape.cells : p > probe.tape.head

\* C24: reset(w) from any tape state leaves the head at 0, w[i] at every
\* position i of w, and the blank everywhere else.
C24_ResetPlacesWord ==
  [][probe'.last.op = "reset"
       => /\ probe'.tape.head = 0
          /\ probe'.tape.blank = probe.tape.blank
          /\ \A p \in TapeWindow :
               SymbolAt(probe'.tape, p)
                 = IF 0 <= p /\ p < Len(probe'.last.arg)
                   THEN probe'.last.arg[p + 1] ELSE probe.tape.blank
          /\ \A p \in DOMAIN probe'.tape.cells :
               /\ 0 <= p /\ p < Len(probe'.last.arg)
               /\ probe'.last.arg[p + 1] # probe.tape.blank]_vars

\* a word with the blank in it has been placed
C24_Witness ==
  /\ probe.on /\ probe.last.op = "reset"
  /\ probe.last.arg = <<probe.tape.blank, "a">>
  /\ DOMAIN probe.tape.cells = {1}

\* the positions of tape t that do not read as the blank
NonBlank(t) == {p \in TapeWindow : SymbolAt(t, p) # t.blank}

\* the symbols read at positions from .. to, as one string
RECURSIVE ReadFrom(_, _, _)
ReadFrom(t, from, to) ==
  IF from > to THEN "" ELSE SymbolAt(t, from) \o ReadFrom(t, from + 1, to)

\* the symbols from the leftmost to the rightmost non-blank position
Canonical(t) ==
  IF NonBlank(t) = {} THEN ""
  ELSE ReadFrom(t, Min(NonBlank(t)), Max(NonBlank(t)))

step(k, M, s) ==
  IF M = nullptr THEN [ok |-> FALSE, sim |-> s]
  ELSE IF k = "mono" THEN Simulator_step(M, s) ELSE MultiSimulator_step(M, s)

reset(k, M, s, input_word) ==
  IF k = "mono"
  THEN IF M = nullptr
       THEN [s EXCEPT !.trace = <<>>, !.visited_configurations = {},
                      !.last_error = ""]
       ELSE Simulator_reset(M, s, input_word)
  ELSE IF M = nullptr THEN s ELSE MultiSimulator_reset(M, s, input_word)

InitPublic ==
  /\ Init
  /\ \/ machine = nullptr
     \/ kind = "mono" /\ machine \in {Acceptor(DefaultBlank), Runner(DefaultBlank)}
     \/ kind = "multi" /\ machine \in {AsOneTape(Acceptor(DefaultBlank)),
                                       AsOneTape(Runner(DefaultBlank))}

PublicStep ==
  /\ ~cli.on
  /\ pc # "running"
  /\ sim.current_config.step_count < MaxRun
  /\ sim' = step(kind, machine, sim).sim
  /\ UNCHANGED <<machine, kind, pc, result, exit, call, cli, probe>>

PublicReset ==
  /\ ~cli.on
  /\ pc # "running"
  /\ \E input_word \in WordsOver({"a"}, 1) :
       sim' = reset(kind, machine, sim, input_word)
  /\ pc' = "ready" /\ result' = "NONE" /\ exit' = "none"
  /\ UNCHANGED <<machine, kind, call, cli, probe>>

SetTraceEnabled ==
  /\ ~cli.on
  /\ pc # "running"
  /\ \E enable \in BOOLEAN : sim' = [sim EXCEPT !.trace_enabled = enable]
  /\ UNCHANGED <<machine, kind, pc, result, exit, call, cli, probe>>

SetMaxSteps ==
  /\ ~cli.on
  /\ pc # "running"
  /\ \E max_steps \in Budgets : sim' = [sim EXCEPT !.max_steps = max_steps]
  /\ UNCHANGED <<machine, kind, pc, result, exit, call, cli, probe>>

NextPublic ==
  \/ Simulate
  \/ Loop
  \/ PublicStep
  \/ PublicReset
  \/ SetTraceEnabled
  \/ SetMaxSteps

SpecPublic == InitPublic /\ [][NextPublic]_vars

\* C26: once simulate has returned, the current configuration stays as it is
\* until the next reset or simulate, whatever public operation is called.
C26_TerminatedIsFrozen ==
  [][(pc = "returned" /\ pc' = "returned")
       => sim'.current_config = sim.current_config]_vars


\* the token main prints for the line w: REJECT at the alphabet gate, or the
\* result of simulate on w
TokenOf(w) ==
  IF ~word_in_alphabet(kind, machine, w) THEN "REJECT"
  ELSE Simulator_result_to_string(
         simulate(kind, machine, Engine(kind, machine), w, cli.trace,
                  cli.max_steps).result)

\* C27: the command line prints exactly one result token per input line, in
\* the order of the lines, the lines stopped at the alphabet gate included.
C27_OneTokenPerLine ==
  cli.on =>
    /\ Len(cli.out) = IF pc = "running" THEN Len(cli.lines) - 1
                      ELSE Len(cli.lines)
    /\ \A i \in 1 .. Len(cli.out) :
         /\ cli.out[i] \in {"ACCEPT", "REJECT", "INFINITE", "ERROR"}
         /\ cli.out[i] = TokenOf(cli.lines[i])

\* a line stopped at the gate and then a line that was simulated, with two
\* different tokens
C27_Witness ==
  /\ cli.on /\ pc = "returned"
  /\ Len(cli.lines) = 2 /\ Len(cli.out) = 2
  /\ ~word_in_alphabet(kind, machine, cli.lines[1])
  /\ word_in_alphabet(kind, machine, cli.lines[2])
  /\ cli.out[1] = "REJECT" /\ cli.out[2] # "REJECT"


(***************************************************************************)
(* Lifting a mono machine to num_tapes tapes.                              *)
(***************************************************************************)
\* the number of tapes a machine is lifted to is at most MaxTapes
MaxTapes == 2

MultiTransition_from_mono_transition(mono_transition, num_tapes, target_tape) ==
  MultiTransition(
    mono_transition.from_state,
    [i \in 1 .. num_tapes |->
       IF i = target_tape + 1 THEN mono_transition.read_symbol ELSE "."],
    mono_transition.to_state,
    [i \in 1 .. num_tapes |->
       IF i = target_tape + 1 THEN mono_transition.write_symbol ELSE "."],
    [i \in 1 .. num_tapes |->
       IF i = target_tape + 1 THEN mono_transition.movement ELSE "S"])

\* the elements of the set S, one after the other as the loop meets them
RECURSIVE Iterated(_)
Iterated(S) ==
  IF S = {} THEN <<>>
  ELSE LET x == CHOOSE x \in S : TRUE IN <<x>> \o Iterated(S \ {x})

MultiTuringMachine_from_mono_machine(mono_machine, num_tapes) ==
  IF num_tapes = 0 THEN Threw(nullptr)
  ELSE RunCalls("multi",
         MultiTuringMachine(num_tapes, mono_machine.blank_symbol),
         CallsOf("add_state", Iterated(mono_machine.states))
           \o CallsOf("add_input_symbol", Iterated(mono_machine.input_alphabet))
           \o CallsOf("add_tape_symbol", Iterated(mono_machine.tape_alphabet))
           \o CallsOf("set_initial_state", <<mono_machine.initial_state>>)
           \o CallsOf("add_accept_state", Iterated(mono_machine.accept_states))
           \o CallsOf("add_transition",
                Iterated({MultiTransition_from_mono_transition(t, num_tapes, 0) :
                            t \in Range(mono_machine.transitions)})))

\* a multi engine constructed on the lifting of a valid mono machine
InitLift ==
  /\ kind = "multi"
  /\ \E mono_machine \in ValidMonoMachines, num_tapes \in 1 .. MaxTapes :
       /\ machine = MultiTuringMachine_from_mono_machine(mono_machine, num_tapes).tm
       /\ probe = [on |-> TRUE, mono |-> mono_machine]
  /\ sim = Engine(kind, machine)
  /\ pc = "ready" /\ result = "NONE" /\ exit = "none"
  /\ call = NoCall /\ cli = NoCli

SpecLift == InitLift /\ [][Next]_vars

\* the call of the state, made on a new mono engine on the machine lifted
OnMono ==
  simulate("mono", probe.mono, Simulator(probe.mono), call.input_word,
           call.enable_trace, call.max_steps)

\* C28: the transitions of from_mono_machine(M, k) read the blank, write the
\* blank and stay on every tape but the first, and the multi engine returns
\* on every word the result the mono engine returns for M.
C28_LiftingPreservesBehaviour ==
  /\ \A key \in DOMAIN machine.transitions :
       \A i \in 2 .. machine.num_tapes :
          /\ machine.transitions[key].read_symbols[i] = machine.blank_symbol
          /\ machine.transitions[key].write_symbols[i] = machine.blank_symbol
          /\ machine.transitions[key].movements[i] = "S"
  /\ (pc = "returned" /\ Ran) => result = OnMono.result


\* what transition t of a machine of class k writes and how it moves, per tape
WritesOf(k, t) == IF k = "mono" THEN <<t.write_symbol>> ELSE t.write_symbols

MovesOf(k, t) == IF k = "mono" THEN <<t.movement>> ELSE t.movements

Displacement(movement) ==
  CASE movement = "L" -> -1 [] movement = "R" -> 1 [] OTHER -> 0

\* C29: one step of the engine applies the transition selected by the state
\* and the symbols read before the step: on every tape the write symbol
\* lands on the cell that was under the head, no other cell changes, the
\* head moves by -1, +1 or 0; the state becomes to_state and step_count
\* grows by 1.
C29_StepWritesThenMoves ==
  [][(pc = "running"
        /\ sim'.current_config.step_count # sim.current_config.step_count)
       => LET t == CurrentTransition
              before == TapesOf(kind, sim.current_config)
              after == TapesOf(kind, sim'.current_config)
          IN /\ t # nullptr
             /\ sim'.current_config.current_state = t.to_state
             /\ sim'.current_config.step_count
                  = sim.current_config.step_count + 1
             /\ Len(after) = Len(before)
             /\ \A i \in 1 .. Len(before) :
                  /\ SymbolAt(after[i], before[i].head) = WritesOf(kind, t)[i]
                  /\ after[i].head
                       = before[i].head + Displacement(MovesOf(kind, t)[i])
                  /\ \A p \in Window \ {before[i].head} :
                       SymbolAt(after[i], p) = SymbolAt(before[i], p)]_vars

\* the unary-sum machine has copied a 1 to its second tape and moved both
\* heads right
C29_Witness ==
  /\ kind = "multi" /\ machine # nullptr /\ machine.num_tapes = 2
  /\ sim.current_config.step_count = 1
  /\ sim.current_config.current_state = "q1"
  /\ sim.current_config.tapes[1].head = 1
  /\ sim.current_config.tapes[2].head = 1
  /\ SymbolAt(sim.current_config.tapes[2], 0) = "1"


\* C30: in every configuration of a run of simulate (valid machine, word
\* over the input alphabet) the current state is a state of the machine and
\* every symbol stored on a tape is in the tape alphabet.
C30_ConfigurationWithinMachine ==
  (pc = "running" \/ Ran)
    => /\ sim.current_config.current_state \in machine.states
       /\ \A i \in 1 .. Len(TapesOf(kind, sim.current_config)) :
            \A p \in DOMAIN TapesOf(kind, sim.current_config)[i].cells :
               TapesOf(kind, sim.current_config)[i].cells[p]
                 \in machine.tape_alphabet

\* a run has left the initial state and has a symbol stored on its tape
C30_Witness ==
  /\ pc = "running"
  /\ sim.current_config.step_count >= 2
  /\ sim.current_config.current_state # machine.initial_state
  /\ \E i \in 1 .. Len(TapesOf(kind, sim.current_config)) :
       DOMAIN TapesOf(kind, sim.current_config)[i].cells # {}

\* C31: move_left, move_right and set_head_position change the head
\* position and nothing else of the tape, wherever the head is; write(blank)
\* on a cell that reads blank leaves the stored cells as they are.
C31_MovesKeepCells ==
  [][/\ probe'.last.op \in {"move_left", "move_right", "set_head_position"}
          => /\ probe'.tape.cells = probe.tape.cells
             /\ probe'.tape.blank = probe.tape.blank
             /\ probe'.tape.head
                  = CASE probe'.last.op = "move_left" -> probe.tape.head - 1
                      [] probe'.last.op = "move_right" -> probe.tape.head + 1
                      [] OTHER -> probe'.last.arg
     /\ (/\ probe'.last.op = "write"
         /\ probe'.last.arg = probe.tape.blank
         /\ Tape_read(probe.tape) = probe.tape.blank)
          => probe'.tape = probe.tape]_vars

\* the head has moved right, two cells past the only stored cell
C31_Witness ==
  /\ probe.on /\ probe.last.op = "move_right"
  /\ DOMAIN probe.tape.cells = {0 - MaxHead}
  /\ probe.tape.head = 0


\* C32: an entry of the trace keeps the state, heads, cells and step count
\* it was appended with through every later step of the same run.
C32_TraceEntriesKept ==
  [][pc = "running"
       => /\ Len(sim'.trace) >= Len(sim.trace)
          /\ \A i \in 1 .. Len(sim.trace) : sim'.trace[i] = sim.trace[i]]_vars

\* a traced run has changed its tape since the first entry of the trace
C32_Witness ==
  /\ pc = "running" /\ sim.trace_enabled
  /\ Len(sim.trace) >= 2
  /\ sim.trace[1].step_count = 0
  /\ sim.trace[1].current_state # sim.current_config.current_state
  /\ \E i \in 1 .. Len(TapesOf(kind, sim.current_config)) :
       /\ TapesOf(kind, sim.trace[1])[i].cells
            # TapesOf(kind, sim.current_config)[i].cells
       /\ TapesOf(kind, sim.trace[1])[i].head
            # TapesOf(kind, sim.current_config)[i].head


\* C33: when the setup of MultiSimulator::simulate for word w is done,
\* whatever the run before left, the state is the initial state, step_count
\* is 0, the first tape holds w from position 0, every other tape is blank,
\* there are as many tapes as the machine has and every head is at 0.
C33_MultiRunStartsClean ==
  [][(kind = "multi" /\ pc # "running" /\ pc' = "running")
       => /\ IsInitialConfiguration(kind, machine, sim'.current_config,
                                    call'.input_word)
          /\ Len(sim'.current_config.tapes) = machine.num_tapes
          /\ \A i \in 1 .. Len(sim'.current_config.tapes) :
               /\ sim'.current_config.tapes[i].blank = machine.blank_symbol
               /\ \A p \in Window :
                    SymbolAt(sim'.current_config.tapes[i], p)
                      = IF i = 1 /\ 0 <= p /\ p < Len(call'.input_word)
                        THEN call'.input_word[p + 1]
                        ELSE machine.blank_symbol]_vars

\* a second run on the two-tape machine is at its start
C33_Witness ==
  /\ kind = "multi" /\ pc = "running" /\ call.again
  /\ machine.num_tapes = 2
  /\ sim.current_config.step_count = 0
  /\ Len(call.input_word) = 2


\* C34: after an add_transition that succeeded the states of the edge are in
\* Q and its symbols in the tape alphabet; a mono add_transition naming a
\* state that is not in Q fails and adds no edge.
C34_EdgesWithinMachine ==
  [][("threw" \in DOMAIN probe' /\ probe'.last # nullptr)
       => /\ ~probe'.threw
               => /\ probe'.last.from_state \in machine'.states
                  /\ probe'.last.to_state \in machine'.states
                  /\ SymbolsOf(kind, probe'.last) \subseteq machine'.tape_alphabet
                  /\ KeyOf(kind, probe'.last) \in DOMAIN machine'.transitions
                  /\ machine'.transitions[KeyOf(kind, probe'.last)] = probe'.last
          /\ (/\ kind = "mono"
              /\ \/ probe'.last.from_state \notin machine.states
                 \/ probe'.last.to_state \notin machine.states)
               => /\ probe'.threw
                  /\ machine'.transitions = machine.transitions]_vars

\* a mono add_transition has been refused for its to_state, which is still
\* not in Q
C34_Witness ==
  /\ probe.on /\ "threw" \in DOMAIN probe
  /\ kind = "mono" /\ probe.threw /\ probe.last # nullptr
  /\ probe.last.from_state \in machine.states
  /\ probe.last.to_state \notin machine.states
  /\ DOMAIN machine.transitions = {}


\* the file of the state loads when its input alphabet is the one symbol a
\* (every other section is acceptable)
LoadsButForInput ==
  Parser_load(kind, [probe.file EXCEPT !.input_alphabet = <<"a">>]).ok

\* C35: a definition file is rejected because of its input alphabet exactly
\* when that alphabet contains the blank the file declares; a file with '.'
\* as an input symbol and another blank loads.
C35_InputAlphabetRejection ==
  (probe.on /\ probe.loaded /\ LoadsButForInput)
    => (~probe.ok <=> probe.file.blank_symbol \in Tokens(probe.file.input_alphabet))


\* the configuration the current call reaches at step i, recomputed from the
\* word of the call by the step function
RECURSIVE ReachedAt(_)
ReachedAt(i) ==
  IF i = 0 THEN reset(kind, machine, sim, call.input_word).current_config
  ELSE AfterStep(kind, machine, sim, ReachedAt(i - 1))

\* the fingerprint of the configuration reached at step i
KeyAt(i) == to_compact_string(kind, ReachedAt(i))

\* C36: whenever the main loop of simulate is at its head with step count n,
\* the fingerprints of the configurations of steps 0..n are pairwise
\* distinct, the visited set holds exactly these n+1 fingerprints and, with
\* the trace enabled, the trace holds exactly these n+1 configurations.
C36_VisitedSetInvariant ==
  pc = "running"
    => LET n == sim.current_config.step_count
       IN /\ sim.current_config = ReachedAt(n)
          /\ \A i, j \in 0 .. n : i # j => KeyAt(i) # KeyAt(j)
          /\ sim.visited_configurations = {KeyAt(i) : i \in 0 .. n}
          /\ Cardinality(sim.visited_configurations) = n + 1
          /\ sim.trace_enabled
               => /\ Len(sim.trace) = n + 1
                  /\ \A i \in 0 .. n : sim.trace[i + 1] = ReachedAt(i)

\* a traced call on an engine used before is at the head of the loop after
\* three steps
C36_Witness ==
  /\ pc = "running" /\ call.again /\ sim.trace_enabled
  /\ sim.current_config.step_count = 3
  /\ Cardinality(sim.visited_configurations) = 4


\* C37: on an engine built on a machine, last_error is non-empty at the
\* return of a simulate call exactly when the result is ERROR; a call that
\* passes the precondition tests after a call that returned ERROR empties
\* last_error, and it is still empty when that call returns.
C37_LastErrorIffError ==
  [][machine # nullptr
       => /\ pc' = "returned" => (sim'.last_error # "" <=> result' = "ERROR")
          /\ (pc = "returned" /\ result = "ERROR" /\ pc' = "running")
               => sim'.last_error = ""
          /\ (pc = "running" /\ sim.last_error = "" /\ result' # "ERROR")
               => sim'.last_error = ""]_vars

\* a run has returned INFINITE with an empty last_error on an engine called
\* before
C37_Witness ==
  /\ machine # nullptr /\ call.again
  /\ pc = "returned" /\ result = "INFINITE" /\ exit = "revisit"
  /\ sim.last_error = ""

\* C38: a simulate call that returns ERROR because the machine is invalid or
\* the word has a symbol outside the input alphabet leaves the current
\* configuration, the trace, the visited set, trace_enabled and max_steps as
\* the previous call left them.
C38_PreconditionErrorKeepsEngine ==
  [][(machine # nullptr /\ pc # "running" /\ StructuralCase(call'.input_word))
       => /\ exit' \in {"invalid_machine", "invalid_word"}
          /\ result' = "ERROR"
          /\ sim'.current_config = sim.current_config
          /\ sim'.trace = sim.trace
          /\ sim'.visited_configurations = sim.visited_configurations
          /\ sim'.trace_enabled = sim.trace_enabled
          /\ sim'.max_steps = sim.max_steps]_vars

\* a call with a word outside the alphabet, another trace flag and another
\* budget has returned ERROR on an engine that holds the trace of a run
C38_Witness ==
  /\ pc = "returned" /\ exit = "invalid_word" /\ call.again
  /\ sim.trace_enabled /\ ~call.enable_trace
  /\ sim.max_steps # call.max_steps
  /\ Len(sim.trace) >= 2
  /\ sim.current_config.step_count > 0
  /\ sim.visited_configurations # {}

====
